---- MODULE Spec2Model ----
(***************************************************************************)
(* A model of the event-driven trading core: the event bus, the stream     *)
(* router, the candlestick aggregator, the portfolio ledger and the        *)
(* execution simulator.  Each component has its own variables and its own  *)
(* specification; a specification leaves the other components' variables   *)
(* unchanged.                                                              *)
(***************************************************************************)
EXTENDS Integers, Sequences, FiniteSets, TLC

VARIABLES
    \* ---- EventBus (src/src/core/event_bus.py)
    _subscribers,   \* topic -> list of handlers, in subscription order
    call,           \* the publish call the model follows
    started,        \* the handler invocations of that call, in start order
    tasks,          \* the coroutines that call gathered: list of [h, st]
    unsubscribed,   \* the <<topic, handler>> pairs for which unsubscribe has
                    \* returned and subscribe was not called since
    \* ---- StreamRouter (src/src/core/stream_router.py)
    now,            \* time.time(), in milliseconds
    queues,         \* symbol -> the events waiting in its asyncio.Queue
    consumer,       \* symbol -> its _symbol_consumer task: [pc, buffer, last_flush, now]
    ordered,        \* symbol -> the events published on ORDERED_MARKET, in order
    accepted,       \* number of events on_raw has accepted
    \* ---- PortfolioHandler (src/src/portfolio/portfolio_handler.py)
    cash,               \* money [hi, lo], see Numbers below
    positions,          \* symbol -> net quantity, in units of 0.0001
    last_prices,        \* symbol -> last trade or mark price, in units of 0.0001
    alpha_virtual_pos,  \* alpha -> symbol -> attributed quantity, in units of 0.000001
    portfolio_pnl,      \* the last row written to portfolio_pnl.csv
    \* ---- OrderExecutionHandler (src/src/execution/order_execution_handler.py)
    mode,               \* "paper", "backtest" or "live"
    _order_meta,        \* order_id -> meta
    \* ---- the bus traffic between the two
    chains,         \* the publish calls in progress: list of [pc, signal, order,
                    \* fill, exc]; exc tells that a handler of the ledger raised
    utcnow,         \* datetime.utcnow(), in microseconds
    \* ---- CandlestickAggregator (src/src/utils/candlestick_aggregator.py)
    timeframes,     \* list of [tf, secs], the dict self.timeframes in its order
    buffers,        \* symbol -> index of the timeframe -> list of candles
    on_tick_calls,  \* the calls of on_tick: list of [pc, tick, symbol, finished]
    snapshots,      \* the messages published on MARKET_SNAPSHOT, in order
    \* ---- MultiStrategyManager (src/src/strategy/multi_strategy_manager.py)
    last_published_score,  \* symbol -> score, in units of 1 / CombinedScale
    signals,               \* the Signals published on SIGNAL, in order
    alpha_scores,          \* the rows written to alpha_scores.csv, in order
    on_snapshot_calls,     \* the calls of on_market_snapshot, in order
    \* ---- two MultiStrategyManagers with their alphas, run side by side
    twin,           \* run -> [momentum, macdfibonacci, seen,
                    \*         last_published_score, published]
    \* ---- EventBus.publish, its loop over the callbacks of one topic
    loop,           \* [subs, at_call, invoked, act]
    \* ---- EventBus.publish called by handlers it is dispatching
    nest            \* [lock, frames]: frames is the list of the publish calls,
                    \* each [topic, parent, pc, handler]

busVars == <<_subscribers, call, started, tasks, unsubscribed>>
routerVars == <<now, queues, consumer, ordered, accepted>>
ledgerVars == <<cash, positions, last_prices, alpha_virtual_pos, portfolio_pnl>>
execVars == <<mode, _order_meta>>
wireVars == <<chains, utcnow>>
aggVars == <<timeframes, buffers, on_tick_calls, snapshots>>
managerVars == <<last_published_score, signals, alpha_scores, on_snapshot_calls>>
extraVars == <<twin, loop, nest>>

vars == <<_subscribers, call, started, tasks, unsubscribed,
          now, queues, consumer, ordered, accepted,
          cash, positions, last_prices, alpha_virtual_pos, portfolio_pnl,
          mode, _order_meta, chains, utcnow,
          timeframes, buffers, on_tick_calls, snapshots,
          last_published_score, signals, alpha_scores, on_snapshot_calls,
          twin, loop, nest>>

\* What each component's actions leave alone.
notBus == <<routerVars, ledgerVars, execVars, wireVars, aggVars, managerVars, extraVars>>
notRouter == <<busVars, ledgerVars, execVars, wireVars, aggVars, managerVars, extraVars>>
notTrading == <<busVars, routerVars, aggVars, managerVars, extraVars>>
notAgg == <<busVars, routerVars, ledgerVars, execVars, wireVars, managerVars, extraVars>>
notManager == <<busVars, routerVars, ledgerVars, execVars, wireVars, aggVars, extraVars>>
notTwin == <<busVars, routerVars, ledgerVars, execVars, wireVars, aggVars, managerVars,
            loop, nest>>
notLoop == <<busVars, routerVars, ledgerVars, execVars, wireVars, aggVars, managerVars,
            twin, nest>>
notNest == <<busVars, routerVars, ledgerVars, execVars, wireVars, aggVars, managerVars,
            twin, loop>>

\* ------------------------------------------------------------------------
\* Bounds of the model
\* ------------------------------------------------------------------------
MaxSubs == 3
\* StreamRouter: events accepted, clock steps, step of the clock in
\* milliseconds, and the largest event timestamp in clock steps.
MaxTicks == 4
MaxTime == 2
Quantum == 200
MaxStamp == 1
\* Trading: SIGNAL publishes followed (ledger with execution simulator), and
\* ORDER publishes followed (execution simulator alone).
MaxSignals == 3
MaxOrders == 3
\* Aggregator: calls of on_tick followed.
MaxCalls == 4
\* Strategy manager: calls of on_market_snapshot followed.
MaxCandles == 4

\* ------------------------------------------------------------------------
\* Generic helpers
\* ------------------------------------------------------------------------
RECURSIVE SeqSum(_)
SeqSum(s) ==
    IF s = <<>> THEN 0 ELSE Head(s) + SeqSum(Tail(s))

\* The positions of s whose element is in keep, in ascending order.
RECURSIVE IndicesIn(_, _, _)
IndicesIn(s, keep, from) ==
    IF from > Len(s) THEN <<>>
    ELSE IF s[from] \in keep THEN <<from>> \o IndicesIn(s, keep, from + 1)
         ELSE IndicesIn(s, keep, from + 1)

\* ========================================================================
\* EventBus
\* ========================================================================
Topics == {"MARKET_SNAPSHOT", "ORDER"}
Payloads == {"p1", "p2"}

\* The handlers of tests/test_event_bus.py, plus a second coroutine.
AsyncHandlers == {"async_listener", "async_listener2"}
SyncHandlers == {"sync_listener"}
Handlers == AsyncHandlers \cup SyncHandlers

\* inspect.iscoroutinefunction(cb)
iscoroutinefunction(cb) == cb \in AsyncHandlers

\* after_raise tells that the call before this one was a publish on the same
\* topic in which a handler raised.
NoCall ==
    [pc |-> "idle", topic |-> "MARKET_SNAPSHOT", data |-> "p1",
     callbacks |-> <<>>, sync_raised |-> {}, after_raise |-> FALSE]

BusInit ==
    /\ _subscribers = [t \in Topics |-> <<>>]
    /\ call = NoCall
    /\ started = <<>>
    /\ tasks = <<>>
    /\ unsubscribed = {}

TotalSubs == SeqSum([i \in 1..2 |-> Len(_subscribers[IF i = 1 THEN "MARKET_SNAPSHOT" ELSE "ORDER"])])

\* No task of the followed call is still running or waiting to start.
TasksOver == \A i \in 1..Len(tasks) : tasks[i].st \in {"done", "failed"}

\* call, started and tasks record one publish call for the properties; the
\* record of a call that is over is dropped when the table changes next.
ForgetCall ==
    /\ call.pc # "gather"
    /\ TasksOver
    /\ call' = NoCall
    /\ started' = <<>>
    /\ tasks' = <<>>

\* EventBus.subscribe: append the callback to the topic's list.
subscribe(topic, callback) ==
    /\ TotalSubs < MaxSubs
    /\ _subscribers' = [_subscribers EXCEPT ![topic] = Append(@, callback)]
    /\ unsubscribed' = unsubscribed \ {<<topic, callback>>}
    /\ ForgetCall
    /\ UNCHANGED notBus

\* list.remove(x): drop the first occurrence of x.
RECURSIVE remove(_, _)
remove(s, x) ==
    IF s = <<>> THEN <<>>
    ELSE IF Head(s) = x THEN Tail(s)
         ELSE <<Head(s)>> \o remove(Tail(s), x)

\* EventBus.unsubscribe: remove the first occurrence, if there is one.
unsubscribe(topic, callback) ==
    /\ \E i \in 1..Len(_subscribers[topic]) : _subscribers[topic][i] = callback
    /\ _subscribers' = [_subscribers EXCEPT ![topic] = remove(@, callback)]
    /\ unsubscribed' = unsubscribed \cup {<<topic, callback>>}
    /\ ForgetCall
    /\ UNCHANGED notBus

\* EventBus.clear: drop every subscription.
clear ==
    /\ TotalSubs > 0
    /\ _subscribers' = [t \in Topics |-> <<>>]
    /\ UNCHANGED unsubscribed
    /\ ForgetCall
    /\ UNCHANGED notBus

\* The loop of publish (lines 38-47): under the lock, which is never
\* contended because the loop does not suspend, every synchronous callback
\* is called at once and its exception is logged and dropped; every
\* coroutine function is called too, which only creates the coroutine.
SyncPart(callbacks, data) ==
    LET syncIdx == IndicesIn(callbacks, SyncHandlers, 1)
    IN  [i \in 1..Len(syncIdx) |-> [h |-> callbacks[syncIdx[i]], data |-> data]]

\* A loop that creates the coroutine of the first coroutine function only.
CreatedTasksFirstOnly(callbacks) ==
    LET asyncIdx == IndicesIn(callbacks, AsyncHandlers, 1)
    IN  [i \in 1..(IF asyncIdx = <<>> THEN 0 ELSE 1) |-> [h |-> callbacks[asyncIdx[i]], st |-> "pending"]]

\* A handler raised in the followed call.
HandlerRaised ==
    call.sync_raised # {} \/ \E i \in 1..Len(tasks) : tasks[i].st = "failed"

CreatedTasks(callbacks) ==
    LET asyncIdx == IndicesIn(callbacks, AsyncHandlers, 1)
    IN  [i \in 1..Len(asyncIdx) |-> [h |-> callbacks[asyncIdx[i]], st |-> "pending"]]

\* EventBus.publish up to its first suspension.
publish(topic, data) ==
    /\ call.pc \in {"idle", "returned", "raised"}
    /\ TasksOver
    /\ LET callbacks == _subscribers[topic]
       IN  IF callbacks = <<>>
           THEN /\ call' = [pc |-> "returned", topic |-> topic, data |-> data,
                            callbacks |-> <<>>, sync_raised |-> {},
                            after_raise |-> FALSE]
                /\ started' = <<>>
                /\ tasks' = <<>>
           ELSE \E raised \in SUBSET {i \in 1..Len(callbacks) : ~iscoroutinefunction(callbacks[i])} :
                /\ started' = SyncPart(callbacks, data)
                /\ tasks' = CreatedTasks(callbacks)
                /\ call' = [pc |-> IF CreatedTasks(callbacks) = <<>> THEN "returned" ELSE "gather",
                            topic |-> topic, data |-> data,
                            callbacks |-> callbacks, sync_raised |-> raised,
                            after_raise |-> (call.pc # "idle" /\ call.topic = topic
                                             /\ HandlerRaised)]
    /\ UNCHANGED <<_subscribers, unsubscribed>>
    /\ UNCHANGED notBus

\* asyncio.gather wraps the coroutines in tasks in list order and the loop
\* runs their first steps in that order: task i starts once every task
\* before it has started.  The first step ends at a suspension, at the
\* handler's return or at its exception.
TaskStart(i) ==
    /\ call.pc = "gather"
    /\ i \in 1..Len(tasks)
    /\ tasks[i].st = "pending"
    /\ \A j \in 1..(i - 1) : tasks[j].st # "pending"
    /\ \E st \in {"running", "done", "failed"} :
          tasks' = [tasks EXCEPT ![i].st = st]
    /\ started' = Append(started, [h |-> tasks[i].h, data |-> call.data])
    /\ UNCHANGED <<_subscribers, unsubscribed, call>>
    /\ UNCHANGED notBus

\* A suspended handler resumes and ends, normally or with an exception.
\* gather does not cancel it when a sibling has failed, so it also runs
\* after publish has raised.
TaskResume(i) ==
    /\ i \in 1..Len(tasks)
    /\ tasks[i].st = "running"
    /\ \E st \in {"done", "failed"} :
          tasks' = [tasks EXCEPT ![i].st = st]
    /\ UNCHANGED <<_subscribers, unsubscribed, call, started>>
    /\ UNCHANGED notBus

\* await asyncio.gather(*tasks) with return_exceptions unset: the first
\* exception of a child is set on the gather future, which wakes publish.
\* Every child has had its first step by then (the children's first steps
\* are queued before any done-callback).
PublishRaise ==
    /\ call.pc = "gather"
    /\ \A i \in 1..Len(tasks) : tasks[i].st # "pending"
    /\ \E i \in 1..Len(tasks) : tasks[i].st = "failed"
    /\ call' = [call EXCEPT !.pc = "raised"]
    /\ UNCHANGED <<_subscribers, unsubscribed, started, tasks>>
    /\ UNCHANGED notBus

\* gather's result is set once every child has ended and none has raised.
PublishReturn ==
    /\ call.pc = "gather"
    /\ \A i \in 1..Len(tasks) : tasks[i].st = "done"
    /\ call' = [call EXCEPT !.pc = "returned"]
    /\ UNCHANGED <<_subscribers, unsubscribed, started, tasks>>
    /\ UNCHANGED notBus

BusNext ==
    \/ \E t \in Topics, h \in Handlers : subscribe(t, h)
    \/ \E t \in Topics, h \in Handlers : unsubscribe(t, h)
    \/ clear
    \/ \E t \in Topics, d \in Payloads : publish(t, d)
    \/ \E i \in 1..MaxSubs : TaskStart(i)
    \/ \E i \in 1..MaxSubs : TaskResume(i)
    \/ PublishRaise
    \/ PublishReturn

\* ------------------------------------------------------------------------
\* Properties of the event bus
\* ------------------------------------------------------------------------
CallOver == call.pc \in {"returned", "raised"}

\* C6: when a publish call is over, the handlers it started are exactly the
\* topic's subscribers at the time of the call, once each with the call's
\* payload, started in subscription order (synchronous and asynchronous
\* handlers alike).
C6_StartedInSubscriptionOrder ==
    CallOver =>
        started = [i \in 1..Len(call.callbacks) |->
                      [h |-> call.callbacks[i], data |-> call.data]]

\* C7: a publish call in which a handler raised, synchronous or
\* asynchronous, does not return normally: the exception reaches the caller.
C7_HandlerExceptionReachesCaller ==
    call.pc = "returned" =>
        /\ call.sync_raised = {}
        /\ \A i \in 1..Len(tasks) : tasks[i].st # "failed"

\* C8: once a publish call has returned, normally or by raising, no handler
\* it started is still running.
C8_NoHandlerRunsAfterReturn ==
    CallOver => TasksOver

\* How often handler h is in a list of handlers, or of invocations.
Times(h, handlers) == Cardinality({i \in 1..Len(handlers) : handlers[i] = h})

\* C29: a publish call in which a handler raises leaves the subscriber table
\* as it was before the call, and a subsequent publish on the same topic
\* again invokes every subscribed handler.
C29_TableSurvivesRaise ==
    /\ []((CallOver /\ HandlerRaised) => _subscribers[call.topic] = call.callbacks)
    /\ []((CallOver /\ call.after_raise) =>
              /\ _subscribers[call.topic] = call.callbacks
              /\ \A h \in Handlers :
                     Times(h, [i \in 1..Len(started) |-> started[i].h])
                         = Times(h, _subscribers[call.topic]))
    /\ [][call.pc = "gather" => _subscribers' = _subscribers]_vars

\* A publish in which a handler raised was followed by a publish on the
\* same topic, which is over and has invoked its two handlers.
C29_Witness ==
    /\ CallOver /\ call.after_raise
    /\ Len(_subscribers[call.topic]) >= 2
    /\ Len(started) >= 2

\* C23: after unsubscribe(topic, h) has returned, a publish on that topic
\* does not invoke h, however often h had been subscribed; after clear() a
\* publish invokes no handler; a publish on a topic without subscribers
\* invokes nothing and returns normally.
C23_UnsubscribedNeverInvoked ==
    /\ \A p \in unsubscribed :
           call.topic = p[1] => \A i \in 1..Len(started) : started[i].h # p[2]
    /\ (call.pc # "idle" /\ _subscribers[call.topic] = <<>>) =>
           started = <<>> /\ tasks = <<>> /\ call.pc = "returned"

\* ------------------------------------------------------------------------
\* publish with handlers that change the table while they are dispatched
\* ------------------------------------------------------------------------
\* The callbacks of one topic, none subscribed twice.  first and second are
\* plain functions, which may call subscribe or unsubscribe of the bus;
\* publish calls them inside its loop.  The coroutine function is called in
\* the loop too (its coroutine is gathered after the loop).
Mutators == {"first", "second"}
LoopHandlers == Mutators \cup {"async_listener"}

\* What a plain function does to the table when publish calls it: nothing,
\* or one call of subscribe or unsubscribe, made the first time it is called.
Acts ==
    [actor : Mutators, kind : {"subscribe", "unsubscribe"}, target : LoopHandlers]
    \cup [actor : {"first"}, kind : {"none"}, target : {"first"}]

IsIn(x, s) == \E i \in 1..Len(s) : s[i] = x
Count(x, s) == Cardinality({i \in 1..Len(s) : s[i] = x})

LoopInit ==
    loop = [subs |-> <<>>, at_call |-> <<>>, invoked |-> <<>>,
            act |-> [actor |-> "first", kind |-> "none", target |-> "first"]]

\* subscribe and unsubscribe between two publishes.
loop_subscribe(callback) ==
    /\ Len(loop.subs) < MaxSubs
    /\ ~IsIn(callback, loop.subs)
    /\ loop' = [loop EXCEPT !.subs = Append(@, callback)]
    /\ UNCHANGED notLoop

loop_unsubscribe(callback) ==
    /\ IsIn(callback, loop.subs)
    /\ loop' = [loop EXCEPT !.subs = remove(@, callback)]
    /\ UNCHANGED notLoop

\* The list after the call the handler makes.
Acted(act, subs) ==
    IF act.kind = "subscribe" THEN Append(subs, act.target)
    ELSE IF act.kind = "unsubscribe" THEN remove(subs, act.target)
    ELSE subs

\* for cb in callbacks, from the position i (counted from 0) on: callbacks
\* is the list of the table itself, so the loop goes on over the list as
\* the handlers leave it.
RECURSIVE ForCbInCallbacks(_, _, _, _, _)
ForCbInCallbacks(callbacks, i, invoked, act, fired) ==
    IF i >= Len(callbacks) THEN [subs |-> callbacks, invoked |-> invoked]
    ELSE LET cb == callbacks[i + 1]
             acts == cb = act.actor /\ ~fired
         IN  ForCbInCallbacks(IF acts THEN Acted(act, callbacks) ELSE callbacks,
                              i + 1, Append(invoked, cb), act, fired \/ acts)

\* EventBus.publish of the topic, the handlers behaving as act says.  A
\* handler subscribes only a callback that is not subscribed.
loop_publish(act) ==
    /\ loop.subs # <<>>
    /\ act.kind = "subscribe" => ~IsIn(act.target, loop.subs)
    /\ LET r == ForCbInCallbacks(loop.subs, 0, <<>>, act, FALSE)
       IN  loop' = [subs |-> r.subs, at_call |-> loop.subs,
                    invoked |-> r.invoked, act |-> act]
    /\ UNCHANGED notLoop

LoopNext ==
    \/ \E callback \in LoopHandlers : loop_subscribe(callback)
    \/ \E callback \in LoopHandlers : loop_unsubscribe(callback)
    \/ \E act \in Acts : loop_publish(act)

\* C38: when a synchronous handler subscribes or unsubscribes a handler of
\* the topic during the dispatch, every handler that was subscribed when
\* publish was called, other than the one removed, is invoked exactly once
\* by that call.
C38_OthersStillInvokedOnce ==
    (loop.act.kind # "none" /\ IsIn(loop.act.actor, loop.invoked)) =>
        \A h \in LoopHandlers :
            (IsIn(h, loop.at_call) /\ ~(loop.act.kind = "unsubscribe" /\ h = loop.act.target))
            => Count(h, loop.invoked) = 1

\* ------------------------------------------------------------------------
\* publish called by a handler that publish is dispatching
\* ------------------------------------------------------------------------
\* Each topic has one coroutine function subscribed, which may await
\* bus.publish on the same or another topic before it returns, as on_signal
\* awaits publish("ORDER", ...).  MaxNest bounds the publish calls of a run.
MaxNest == 4
NestTopics == {"SIGNAL", "ORDER"}

\* self._lock = asyncio.Lock(): 0 when free, else the publish call that
\* holds it.
NestInit == nest = [lock |-> 0, frames |-> <<>>]

\* bus.publish(topic, data) is called: by a publisher (parent = 0) or by
\* the handler of the call parent.
NewFrame(topic, parent) ==
    [topic |-> topic, parent |-> parent, pc |-> "acquire", handler |-> "none"]

start_publish(topic) ==
    /\ Len(nest.frames) < MaxNest
    /\ nest' = [nest EXCEPT !.frames = Append(@, NewFrame(topic, 0))]
    /\ UNCHANGED notNest

\* The holder of the lock when the call goes on to gather as if the gather
\* were inside the async with block.
HeldDuringGather(i) == i

\* The holder of the lock when the call goes on to gather: the async with
\* block has ended, the lock is free.
LockAtGather(i) == 0

\* async with self._lock: the call waits until the lock is free, then runs
\* its loop, which creates the handler's coroutine, without suspending.
publish_enter(i) ==
    /\ i \in 1..Len(nest.frames)
    /\ nest.frames[i].pc = "acquire"
    /\ nest.lock = 0
    /\ nest' = [nest EXCEPT !.lock = LockAtGather(i),
                            !.frames[i].pc = "gather",
                            !.frames[i].handler = "created"]
    /\ UNCHANGED notNest

\* The handler, run by gather, awaits bus.publish(topic, ...).
handler_publish(i, topic) ==
    /\ i \in 1..Len(nest.frames)
    /\ nest.frames[i].pc = "gather"
    /\ nest.frames[i].handler = "created"
    /\ Len(nest.frames) < MaxNest
    /\ nest' = [nest EXCEPT !.frames = Append([@ EXCEPT ![i].handler = "awaiting"],
                                              NewFrame(topic, i))]
    /\ UNCHANGED notNest

\* The handler returns: without having published, or when the publish it
\* awaits has returned.
handler_return(i) ==
    /\ i \in 1..Len(nest.frames)
    /\ nest.frames[i].pc = "gather"
    /\ \/ nest.frames[i].handler = "created"
       \/ /\ nest.frames[i].handler = "awaiting"
          /\ \A j \in 1..Len(nest.frames) :
                nest.frames[j].parent = i => nest.frames[j].pc = "returned"
    /\ nest' = [nest EXCEPT !.frames[i].handler = "done"]
    /\ UNCHANGED notNest

\* gather is over and publish returns.
publish_return(i) ==
    /\ i \in 1..Len(nest.frames)
    /\ nest.frames[i].pc = "gather"
    /\ nest.frames[i].handler = "done"
    /\ nest' = [nest EXCEPT !.frames[i].pc = "returned",
                            !.lock = IF @ = i THEN 0 ELSE @]
    /\ UNCHANGED notNest

\* What the event loop runs.
NestRun ==
    \/ \E i \in 1..MaxNest : publish_enter(i)
    \/ \E i \in 1..MaxNest : \E topic \in NestTopics : handler_publish(i, topic)
    \/ \E i \in 1..MaxNest : handler_return(i)
    \/ \E i \in 1..MaxNest : publish_return(i)

NestNext ==
    \/ \E topic \in NestTopics : start_publish(topic)
    \/ NestRun

\* C39: a handler that awaits publish, on its own topic or another, while
\* it is dispatched does not deadlock on the lock of the bus: every publish
\* call returns in the end, the nested handlers all returning.
C39_NestedPublishReturns ==
    \A i \in 1..MaxNest :
        (i <= Len(nest.frames)) ~> (i <= Len(nest.frames) /\ nest.frames[i].pc = "returned")

\* A publish has returned whose handler awaited a publish on the same topic.
C39_Witness ==
    \E i, j \in 1..Len(nest.frames) :
        /\ nest.frames[j].parent = i
        /\ nest.frames[j].topic = nest.frames[i].topic
        /\ nest.frames[i].pc = "returned"

\* ========================================================================
\* StreamRouter
\* ========================================================================
buffer_ms == 200
FlushSize == 50
QueueMaxsize == 10000

\* Symbols as the data clients send them, and str.upper() on them.
RawSymbols == {"btcusdt", "ETHUSDT"}
upper(sym) == IF sym = "btcusdt" THEN "BTCUSDT" ELSE sym
Symbols == {upper(sym) : sym \in RawSymbols}

Prices == {100, 101}
\* An event's timestamp: epoch milliseconds, or BadStamp, which stands for
\* every value fromisoformat rejects (a missing or malformed timestamp).
Stamps == {k * Quantum : k \in 0..MaxStamp}
BadStamp == 0 - 1

\* The raw events the data clients publish.  id (the arrival number) and arr
\* (the arrival time) are not fields of the event: they name the event in
\* the properties.
\* The second symbol is there for the per-symbol queues: its events all
\* carry the same price and timestamp.
RawEvents ==
    [symbol : {"btcusdt"}, price : Prices, timestamp : Stamps \cup {BadStamp},
     id : {accepted + 1}, arr : {now}]
    \cup
    [symbol : {"ETHUSDT"}, price : {100}, timestamp : {0},
     id : {accepted + 1}, arr : {now}]

\* The event as the program sees it.
Content(e) == [symbol |-> e.symbol, price |-> e.price, timestamp |-> e.timestamp]

RouterInit ==
    /\ now = 0
    /\ queues = <<>>
    /\ consumer = <<>>
    /\ ordered = [s \in Symbols |-> <<>>]
    /\ accepted = 0

\* StreamRouter.on_raw: the symbol's queue and consumer task are created at
\* the symbol's first event; the event is put on the queue, which blocks
\* while the queue is full.
on_raw(raw_event) ==
    LET symbol == upper(raw_event.symbol)
    IN  /\ accepted' = accepted + 1
        /\ IF symbol \notin DOMAIN queues
           THEN /\ queues' = [s \in DOMAIN queues \cup {symbol} |->
                                 IF s = symbol THEN <<raw_event>> ELSE queues[s]]
                /\ consumer' = [s \in DOMAIN consumer \cup {symbol} |->
                                   IF s = symbol
                                   THEN [pc |-> "new", buffer |-> <<>>,
                                         last_flush |-> 0, now |-> 0,
                                         flushed |-> 0]
                                   ELSE consumer[s]]
           ELSE /\ Len(queues[symbol]) < QueueMaxsize
                /\ queues' = [queues EXCEPT ![symbol] = Append(@, raw_event)]
                /\ UNCHANGED consumer
        /\ UNCHANGED <<now, ordered>>
        /\ UNCHANGED notRouter

\* Tuple comparison of two heap entries (epoch, item): decided by the epochs
\* when they differ; equal epochs compare the items, two dicts, which are
\* either equal or raise TypeError on <.
Comparable(a, b) == a.epoch # b.epoch \/ Content(a.item) = Content(b.item)
Less(a, b) == a.epoch < b.epoch

HeapError == [ok |-> FALSE, heap |-> <<>>]
HeapOk(heap) == [ok |-> TRUE, heap |-> heap]

\* heapq._siftdown(heap, startpos, pos), positions counted from 0.
RECURSIVE _siftdown(_, _, _, _)
_siftdown(heap, startpos, pos, newitem) ==
    IF pos > startpos
    THEN LET parentpos == (pos - 1) \div 2
             parent == heap[parentpos + 1]
         IN  IF ~Comparable(newitem, parent) THEN HeapError
             ELSE IF Less(newitem, parent)
                  THEN _siftdown([heap EXCEPT ![pos + 1] = parent], startpos, parentpos, newitem)
                  ELSE HeapOk([heap EXCEPT ![pos + 1] = newitem])
    ELSE HeapOk([heap EXCEPT ![pos + 1] = newitem])

\* heapq._siftup(heap, pos)
RECURSIVE _siftup(_, _, _, _)
_siftup(heap, startpos, pos, newitem) ==
    LET endpos == Len(heap)
        childpos == 2 * pos + 1
        rightpos == childpos + 1
    IN  IF childpos < endpos
        THEN IF rightpos < endpos /\ ~Comparable(heap[childpos + 1], heap[rightpos + 1])
             THEN HeapError
             ELSE LET c == IF rightpos < endpos /\ ~Less(heap[childpos + 1], heap[rightpos + 1])
                           THEN rightpos ELSE childpos
                  IN  _siftup([heap EXCEPT ![pos + 1] = heap[c + 1]], startpos, c, newitem)
        ELSE _siftdown([heap EXCEPT ![pos + 1] = newitem], startpos, pos, newitem)

\* heapq.heappush(heap, item)
heappush(heap, item) == _siftdown(Append(heap, item), 0, Len(heap), item)

\* heapq.heappop(heap): [ok, heap, item]
heappop(heap) ==
    LET lastelt == heap[Len(heap)]
        rest == SubSeq(heap, 1, Len(heap) - 1)
    IN  IF rest = <<>>
        THEN [ok |-> TRUE, heap |-> <<>>, item |-> lastelt]
        ELSE LET r == _siftup([rest EXCEPT ![1] = lastelt], 0, 0, lastelt)
             IN  [ok |-> r.ok, heap |-> r.heap, item |-> rest[1]]

\* datetime.fromisoformat(ts).timestamp(), or time.time() when that raises.
Epoch(ts) == IF ts = BadStamp THEN now ELSE ts

\* The flush policy of the consumer's loop, of the time since the last
\* flush and the length of the heap.
ShouldFlushOnTimeOnly(elapsed, n) == elapsed >= buffer_ms
ShouldFlush(elapsed, n) == elapsed >= buffer_ms \/ n > FlushSize

\* The consumer task's first step: last_flush = time.time().
ConsumerStart(symbol) ==
    /\ symbol \in DOMAIN consumer
    /\ consumer[symbol].pc = "new"
    /\ consumer' = [consumer EXCEPT ![symbol].pc = "get",
                                    ![symbol].last_flush = now]
    /\ UNCHANGED <<now, queues, ordered, accepted>>
    /\ UNCHANGED notRouter

\* One turn of the consumer's loop: take an event from the queue, push it
\* on the heap, and decide whether to flush.  A TypeError of the heap ends
\* the task.
ConsumerGet(symbol) ==
    /\ symbol \in DOMAIN consumer
    /\ consumer[symbol].pc = "get"
    /\ queues[symbol] # <<>>
    /\ LET item == Head(queues[symbol])
           pushed == heappush(consumer[symbol].buffer,
                              [epoch |-> Epoch(item.timestamp), item |-> item])
       IN  /\ queues' = [queues EXCEPT ![symbol] = Tail(@)]
           /\ IF ~pushed.ok
              THEN consumer' = [consumer EXCEPT ![symbol].pc = "dead",
                                                ![symbol].buffer = Append(@, [epoch |-> Epoch(item.timestamp), item |-> item])]
              ELSE IF ShouldFlush(now - consumer[symbol].last_flush, Len(pushed.heap))
                   THEN consumer' = [consumer EXCEPT ![symbol].pc = "flush",
                                                     ![symbol].buffer = pushed.heap,
                                                     ![symbol].now = now]
                   ELSE consumer' = [consumer EXCEPT ![symbol].buffer = pushed.heap]
    /\ UNCHANGED <<now, ordered, accepted>>
    /\ UNCHANGED notRouter

\* One turn of _flush_buffer's loop: pop the least entry and publish its
\* event on ORDERED_MARKET; when the heap is empty the flush is over and
\* last_flush becomes the time read before the flush.  flushed counts the
\* events the flush in progress has published.
_flush_buffer(symbol) ==
    /\ symbol \in DOMAIN consumer
    /\ consumer[symbol].pc = "flush"
    /\ IF consumer[symbol].buffer = <<>>
       THEN /\ consumer' = [consumer EXCEPT ![symbol].pc = "get",
                                            ![symbol].last_flush = consumer[symbol].now,
                                            ![symbol].flushed = 0]
            /\ UNCHANGED ordered
       ELSE LET popped == heappop(consumer[symbol].buffer)
            IN  IF ~popped.ok
                THEN /\ consumer' = [consumer EXCEPT ![symbol].pc = "dead"]
                     /\ UNCHANGED ordered
                ELSE /\ consumer' = [consumer EXCEPT ![symbol].buffer = popped.heap,
                                                     ![symbol].flushed = @ + 1]
                     /\ ordered' = [ordered EXCEPT ![symbol] = Append(@, popped.item.item)]
    /\ UNCHANGED <<now, queues, accepted>>
    /\ UNCHANGED notRouter

\* No task of the router can run: every consumer waits on an empty queue
\* or has ended.
RouterIdle ==
    \A s \in DOMAIN consumer :
        \/ consumer[s].pc \in {"dead", "cancelled"}
        \/ consumer[s].pc = "get" /\ queues[s] = <<>>

\* The clock advances while the event loop has nothing to run.
Tick ==
    /\ RouterIdle
    /\ now < MaxTime * Quantum
    /\ now' = now + Quantum
    /\ UNCHANGED <<queues, consumer, ordered, accepted>>
    /\ UNCHANGED notRouter

RouterNext ==
    \/ \E e \in RawEvents : accepted < MaxTicks /\ on_raw(e)
    \/ \E s \in Symbols : ConsumerStart(s)
    \/ \E s \in Symbols : ConsumerGet(s)
    \/ \E s \in Symbols : _flush_buffer(s)
    \/ Tick

\* A burst of ticks of one symbol, all alike, as a data client sends them
\* when the price stands still: more than the size the flush policy lets the
\* heap grow to.
MaxBurst == 53
BurstEvents ==
    [symbol : {"btcusdt"}, price : {100}, timestamp : {0},
     id : {accepted + 1}, arr : {now}]

BurstNext ==
    \/ \E e \in BurstEvents : accepted < MaxBurst /\ on_raw(e)
    \/ \E s \in Symbols : ConsumerStart(s)
    \/ \E s \in Symbols : ConsumerGet(s)
    \/ \E s \in Symbols : _flush_buffer(s)
    \/ Tick

\* Task.cancel() on a consumer task, as asyncio.run does with every task
\* that is left when the main coroutine returns.  The task is cancelled
\* where it is suspended: before its first step, in q.get() on an empty
\* queue (the CancelledError is caught and the loop left), or in the
\* publish of the event a flush has just popped, where nothing catches the
\* CancelledError.  Either way the task ends and its buffer goes with it;
\* the model keeps the buffer and the count of the flush to tell what was
\* lost.
Suspended(symbol) ==
    \/ consumer[symbol].pc = "new"
    \/ consumer[symbol].pc = "get" /\ queues[symbol] = <<>>
    \/ consumer[symbol].pc = "flush" /\ consumer[symbol].flushed > 0

Cancel(symbol) ==
    /\ symbol \in DOMAIN consumer
    /\ Suspended(symbol)
    /\ consumer' = [consumer EXCEPT ![symbol].pc = "cancelled"]
    /\ UNCHANGED <<now, queues, ordered, accepted>>
    /\ UNCHANGED notRouter

CancelNext ==
    \/ RouterNext
    \/ \E s \in Symbols : Cancel(s)

\* ------------------------------------------------------------------------
\* Properties of the stream router
\* ------------------------------------------------------------------------
\* The events of a symbol that were accepted and are not yet re-published.
RECURSIVE Range(_)
Range(s) == IF s = <<>> THEN {} ELSE {Head(s)} \cup Range(Tail(s))

Held(symbol) ==
    Range(queues[symbol]) \cup {b.item : b \in Range(consumer[symbol].buffer)}

\* C2: for every symbol, two events with well-formed timestamps that
\* arrived within one buffer window of each other are re-published on
\* ORDERED_MARKET in non-decreasing timestamp order.
C2_OrderedWithinWindow ==
    \A s \in Symbols : \A i, j \in 1..Len(ordered[s]) :
        LET a == ordered[s][i]
            b == ordered[s][j]
        IN  (/\ i < j
             /\ a.timestamp # BadStamp /\ b.timestamp # BadStamp
             /\ a.arr - b.arr < buffer_ms /\ b.arr - a.arr < buffer_ms)
            => a.timestamp <= b.timestamp

\* C3: an accepted event waits at most one buffer window before it is
\* re-published: no event is still held when more than buffer_ms have
\* passed since its arrival.
C3_HeldAtMostOneWindow ==
    \A s \in DOMAIN queues : \A e \in Held(s) : now - e.arr <= buffer_ms

\* The events of a symbol that a running consumer will still re-publish:
\* a consumer task that has ended takes nothing more from its queue, and
\* its buffer is gone with it.
Pending(symbol) ==
    IF symbol \notin DOMAIN consumer \/ consumer[symbol].pc \in {"dead", "cancelled"}
    THEN {}
    ELSE Held(symbol)

\* How often the event with this arrival number is on ORDERED_MARKET.
TimesOrdered(id) ==
    Cardinality({<<s, i>> \in Symbols \X (1..MaxTicks + 1) :
                    i <= Len(ordered[s]) /\ ordered[s][i].id = id})

\* C21: the router never drops or duplicates a tick: every accepted event is
\* on ORDERED_MARKET exactly once, or not yet there and waiting in the queue
\* or the buffer of its symbol's consumer.
C21_NoTickDroppedOrDuplicated ==
    \A id \in 1..accepted :
        \/ TimesOrdered(id) = 1 /\ \A s \in Symbols : \A e \in Pending(s) : e.id # id
        \/ TimesOrdered(id) = 0 /\ \E s \in Symbols : \E e \in Pending(s) : e.id = id

\* C31: a tick whose timestamp is missing or unparseable is ordered with
\* the current time as its epoch, is still re-published, and does not end
\* the consumer of its symbol: no consumer task has ended holding in its
\* buffer such a tick next to a different tick of the same epoch.
C31_MalformedStampKeepsConsumer ==
    \A s \in DOMAIN consumer :
        consumer[s].pc = "dead" =>
            \A i, j \in 1..Len(consumer[s].buffer) :
                LET a == consumer[s].buffer[i]
                    b == consumer[s].buffer[j]
                IN  ~(/\ a.item.timestamp = BadStamp
                      /\ a.epoch = b.epoch
                      /\ Content(a.item) # Content(b.item))

\* C32: after buffering a tick the consumer flushes exactly when the time
\* since the last flush is at least buffer_ms or more than 50 ticks are
\* buffered, a flush that ends leaves the heap empty, and so no heap ever
\* holds more than 51 ticks.
HeapBounded ==
    \A s \in DOMAIN consumer : Len(consumer[s].buffer) <= 51

FlushStep ==
    \A s \in DOMAIN consumer :
        /\ (/\ consumer[s].pc = "get"
            /\ consumer'[s].pc \in {"get", "flush"}
            /\ Len(consumer'[s].buffer) = Len(consumer[s].buffer) + 1)
           => (consumer'[s].pc = "flush"
                 <=> \/ now - consumer[s].last_flush >= buffer_ms
                     \/ Len(consumer'[s].buffer) > 50)
        /\ (consumer[s].pc = "flush" /\ consumer'[s].pc = "get")
           => consumer'[s].buffer = <<>>

C32_FlushPolicyBoundsHeap == []HeapBounded /\ [][FlushStep]_vars

\* A flush that the size of the heap set off, not the time.
C32_Witness ==
    \E s \in DOMAIN consumer :
        /\ consumer[s].pc = "flush"
        /\ consumer[s].flushed = 0
        /\ Len(consumer[s].buffer) = 51
        /\ consumer[s].now - consumer[s].last_flush < buffer_ms

\* C33: a cancelled consumer has ended, and it leaves no flush half done:
\* of the ticks that were buffered when the flush began either all were
\* published or none.
C33_NoPartialFlushOnCancel ==
    \A s \in DOMAIN consumer :
        consumer[s].pc = "cancelled" =>
            consumer[s].flushed = 0 \/ consumer[s].buffer = <<>>

\* ========================================================================
\* PortfolioHandler and OrderExecutionHandler on one bus
\* ========================================================================
\* Numbers.  The code computes in floats; the model computes the same
\* expressions exactly, in fixed point:
\*   a score is counted in hundredths;
\*   a quantity in units of 0.0001, the thresholds in units of 0.000001;
\*   a price of the ledger and of a Fill in units of 0.0001;
\*   money (cash, trade value, commission, equity) is [hi, lo] =
\*   hi + lo / 10^8 units of 0.0001, with 0 <= lo < 10^8.
ScoreScale == 10 * 10
MicroPerUnit == 10 * 10
BPS == 10000
MUnit == BPS * BPS

M4(x) == [hi |-> x \div BPS, lo |-> (x % BPS) * BPS]
M8(x) == [hi |-> x \div MUnit, lo |-> x % MUnit]
MAdd(a, b) ==
    [hi |-> a.hi + b.hi + ((a.lo + b.lo) \div MUnit), lo |-> (a.lo + b.lo) % MUnit]
MNeg(a) ==
    IF a.lo = 0 THEN [hi |-> 0 - a.hi, lo |-> 0]
    ELSE [hi |-> 0 - a.hi - 1, lo |-> MUnit - a.lo]
MSub(a, b) == MAdd(a, MNeg(b))

abs(x) == IF x < 0 THEN 0 - x ELSE x
max(a, b) == IF a >= b THEN a ELSE b
min(a, b) == IF a <= b THEN a ELSE b

\* portfolio_handler.py:9-11: 1e-6 and 0.0004 in units of 0.000001, 0.01 in
\* units of 0.0001; portfolio_handler.py:22: the cash at the start, in currency.
MIN_TRADE_UNITS == 1
DELTA_THRESHOLD == 400
DEFAULT_MAX_UNITS == 100
initial_cash == 100000
\* order_execution_handler.py:21, in basis points
slippage_bps == 3
commission_bps == 1

\* The keys of alpha_virtual_pos: a defaultdict, which reads 0 for an alpha
\* that was never attributed anything.
Alphas == {"GENERIC", "meanreversion", "momentum", "atrgaussian", "macdfibonacci",
           "genericalpha"}

\* A meta dict: its "alpha" entry and its "scores" entry (has_scores tells
\* whether the key is there).  NoMeta is the empty dict.
NoMeta == [alpha |-> "", has_scores |-> FALSE, scores |-> <<>>]
BlendMeta ==
    [alpha |-> "multi", has_scores |-> TRUE,
     scores |-> ("momentum" :> 100 @@ "meanreversion" :> 60)]
TestMeta == [alpha |-> "alpha_1", has_scores |-> FALSE, scores |-> <<>>]

\* The Signals published on SIGNAL.  The second symbol and the Signal that
\* is no TARGET come in one shape each, the blended Signal in one.
Signals ==
    [symbol : {"btcusdt"}, direction : {"TARGET"}, score : {3, 80, 0 - 150},
     price : {100}, meta : {NoMeta}]
    \cup
    [symbol : {"btcusdt"}, direction : {"TARGET"}, score : {80},
     price : {100}, meta : {BlendMeta}]
    \cup
    [symbol : {"ETHUSDT"}, direction : {"TARGET"}, score : {80},
     price : {50}, meta : {NoMeta}]
    \cup
    [symbol : {"btcusdt"}, direction : {"BUY"}, score : {80},
     price : {100}, meta : {NoMeta}]

\* A price that float() rejects.
BadPrice == 0 - 1

\* A weight of a scores dict that float() rejects, such as None.
NotANumber == 0 - 9999

BadWeightMeta ==
    [alpha |-> "multi", has_scores |-> TRUE, scores |-> ("momentum" :> NotANumber)]

\* Signals with a price or a weight that float() rejects.
BadSignals ==
    [symbol : {"btcusdt"}, direction : {"TARGET"}, score : {80},
     price : {BadPrice}, meta : {NoMeta}]
    \cup
    [symbol : {"btcusdt"}, direction : {"TARGET"}, score : {80},
     price : {100}, meta : {BadWeightMeta}]

NoSignal == [symbol |-> "", direction |-> "", score |-> 0, price |-> 0, meta |-> NoMeta]
NoOrder ==
    [symbol |-> "", quantity |-> 0, direction |-> "", price |-> 0,
     order_id |-> 0 - 1, meta |-> NoMeta]
NoFill ==
    [symbol |-> "", quantity |-> 0, direction |-> "", fill_price |-> 0,
     commission |-> M8(0), order_id |-> 0 - 1, meta |-> NoMeta]
NoRow ==
    [cash |-> M4(0), unrealized |-> M4(0), total_equity |-> M4(0),
     positions |-> [s \in Symbols |-> 0]]

\* The Orders tests/test_order_execution.py publishes straight on ORDER.
TestOrders(id) ==
    [symbol : {"BTCUSDT"}, quantity : {100}, direction : {"BUY", "SELL"},
     price : {100}, order_id : {id}, meta : {TestMeta, NoMeta}]

TradingInit ==
    /\ cash = [hi |-> initial_cash * BPS, lo |-> 0]
    /\ positions = [s \in Symbols |-> 0]
    /\ last_prices = [s \in Symbols |-> 0]
    /\ alpha_virtual_pos = [a \in Alphas |-> [s \in Symbols |-> 0]]
    /\ portfolio_pnl = NoRow
    /\ mode \in {"paper", "backtest", "live"}
    /\ _order_meta = <<>>
    /\ chains = <<>>
    /\ utcnow = 0

\* await bus.publish("SIGNAL", signal) by a strategy: on_signal is gathered
\* and runs at the loop's next turn.
PublishSignal(signal) ==
    /\ Len(chains) < MaxSignals
    /\ chains' = Append(chains, [pc |-> "signal", signal |-> signal,
                                 order |-> NoOrder, fill |-> NoFill, exc |-> FALSE])
    /\ UNCHANGED <<ledgerVars, execVars, utcnow>>
    /\ UNCHANGED notTrading

\* await bus.publish("ORDER", order) by a caller other than the ledger.
PublishOrder(order) ==
    /\ Len(chains) < MaxOrders
    /\ chains' = Append(chains, [pc |-> "order", signal |-> NoSignal,
                                 order |-> order, fill |-> NoFill, exc |-> FALSE])
    /\ UNCHANGED <<ledgerVars, execVars, utcnow>>
    /\ UNCHANGED notTrading

max_units(symbol) == DEFAULT_MAX_UNITS

\* A target that follows the score beyond -1 and 1.
TargetUnclamped(score, symbol) ==
    (score * max_units(symbol)) \div ScoreScale

\* target = max(-1.0, min(1.0, score)) * self.max_units[symbol]
Target(score, symbol) ==
    (max(0 - ScoreScale, min(ScoreScale, score)) * max_units(symbol)) \div ScoreScale

\* abs(delta) < max(DELTA_THRESHOLD, MIN_TRADE_UNITS)
IsNoise(delta) == abs(delta) * MicroPerUnit < max(DELTA_THRESHOLD, MIN_TRADE_UNITS)

\* The meta of the Order: a scores dict is added when the Signal has none.
OrderMeta(signal) ==
    IF ~signal.meta.has_scores \/ signal.meta.scores = <<>>
    THEN [signal.meta EXCEPT !.has_scores = TRUE,
                             !.scores = ("GENERIC" :> signal.score)]
    ELSE signal.meta

\* PortfolioHandler.on_signal, which runs without suspending up to its
\* publish of the Order.
on_signal(c) ==
    /\ c \in 1..Len(chains)
    /\ chains[c].pc = "signal"
    /\ LET signal == chains[c].signal
           symbol == upper(signal.symbol)
           delta == Target(signal.score, symbol) - positions[symbol]
           order == [symbol |-> symbol, quantity |-> abs(delta),
                     direction |-> IF delta > 0 THEN "BUY" ELSE "SELL",
                     price |-> signal.price, order_id |-> utcnow,
                     meta |-> OrderMeta(signal)]
       IN  IF signal.direction # "TARGET"
           THEN /\ chains' = [chains EXCEPT ![c].pc = "done"]
                /\ UNCHANGED last_prices
           ELSE IF signal.price = BadPrice
           THEN /\ chains' = [chains EXCEPT ![c].pc = "raised", ![c].exc = TRUE]
                /\ UNCHANGED last_prices
           ELSE /\ last_prices' = [last_prices EXCEPT ![symbol] = signal.price * BPS]
                /\ IF IsNoise(delta)
                   THEN chains' = [chains EXCEPT ![c].pc = "done"]
                   ELSE chains' = [chains EXCEPT ![c].pc = "order", ![c].order = order]
    /\ UNCHANGED <<cash, positions, alpha_virtual_pos, portfolio_pnl>>
    /\ UNCHANGED <<execVars, utcnow>>
    /\ UNCHANGED notTrading

\* A live order that is sent and never filled.
ExecuteRealWithoutFill(c) ==
    chains' = [chains EXCEPT ![c].pc = "done"]

\* OrderExecutionHandler._execute_real: print, then _simulate_fill, which
\* starts by sleeping.
_execute_real(c) ==
    chains' = [chains EXCEPT ![c].pc = "sleep"]

\* OrderExecutionHandler.on_order up to the sleep of _simulate_fill: the
\* meta is stored under the order_id, the order is logged without it.
on_order(c) ==
    /\ c \in 1..Len(chains)
    /\ chains[c].pc = "order"
    /\ LET order == chains[c].order
       IN  _order_meta' = [id \in DOMAIN _order_meta \cup {order.order_id} |->
                              IF id = order.order_id THEN order.meta ELSE _order_meta[id]]
    /\ IF mode \in {"paper", "backtest"}
       THEN chains' = [chains EXCEPT ![c].pc = "sleep"]
       ELSE _execute_real(c)
    /\ UNCHANGED <<ledgerVars, mode, utcnow>>
    /\ UNCHANGED notTrading

\* A fill price with the slippage added for a SELL too.
FillPriceAlwaysAdds(order) ==
    order.price * BPS + slippage_bps * order.price

\* fill_price, in units of 0.0001: order.price +/- (slippage_bps / 10000) * order.price
FillPrice(order) ==
    IF order.direction = "BUY"
    THEN order.price * BPS + slippage_bps * order.price
    ELSE order.price * BPS - slippage_bps * order.price

\* commission = (commission_bps / 10000) * (fill_price * order.quantity)
Commission(order) == M8(commission_bps * FillPrice(order) * order.quantity)

\* self._order_meta.pop(order_id, {})
PoppedMeta(order_id) ==
    IF order_id \in DOMAIN _order_meta THEN _order_meta[order_id] ELSE NoMeta

\* A pop that leaves the entry in the table.
TableKeepsEntry(order_id) == _order_meta

\* The table after self._order_meta.pop(order_id, {})
TableAfterPop(order_id) ==
    [id \in DOMAIN _order_meta \ {order_id} |-> _order_meta[id]]

\* OrderExecutionHandler._simulate_fill after its sleep: the Fill is built
\* with the stored meta, which leaves the table, and published on FILL.
_simulate_fill(c) ==
    /\ c \in 1..Len(chains)
    /\ chains[c].pc = "sleep"
    /\ LET order == chains[c].order
           fill == [symbol |-> order.symbol, quantity |-> order.quantity,
                    direction |-> order.direction, fill_price |-> FillPrice(order),
                    commission |-> Commission(order), order_id |-> order.order_id,
                    meta |-> PoppedMeta(order.order_id)]
       IN  /\ _order_meta' = TableAfterPop(order.order_id)
           /\ chains' = [chains EXCEPT ![c].pc = "fill", ![c].fill = fill]
    /\ UNCHANGED <<ledgerVars, mode, utcnow>>
    /\ UNCHANGED notTrading

\* sum(q * self.last_prices[s] for s, q in self.positions.items()), in
\* units of 0.0001 * 0.0001
RECURSIVE SumOver(_, _)
SumOver(S, f) ==
    IF S = {} THEN 0
    ELSE LET x == CHOOSE y \in S : TRUE IN f[x] + SumOver(S \ {x}, f)

Unrealized(pos, prices) == SumOver(Symbols, [s \in Symbols |-> pos[s] * prices[s]])

\* An attribution without the default for a meta that has no scores.
FillScoresWithoutDefault(fill) == fill.meta.scores

\* (fill.meta or {}).get("scores", {"GENERIC": 1.0})
FillScores(fill) ==
    IF fill.meta.has_scores THEN fill.meta.scores ELSE ("GENERIC" :> ScoreScale)

\* A cash update that forgets the commission.
CashAfterWithoutCommission(fill) ==
    LET trade_value == M4(fill.fill_price * abs(fill.quantity))
    IN  IF fill.direction = "BUY"
        THEN MSub(cash, trade_value)
        ELSE MAdd(cash, trade_value)

\* The cash after the fill: trade_value = price * abs(quantity);
\* cash -= trade_value + commission for a BUY, cash += trade_value - commission else.
CashFrom(cash0, fill) ==
    LET trade_value == M4(fill.fill_price * abs(fill.quantity))
    IN  IF fill.direction = "BUY"
        THEN MSub(cash0, MAdd(trade_value, fill.commission))
        ELSE MAdd(cash0, MSub(trade_value, fill.commission))

CashAfter(fill) == CashFrom(cash, fill)

\* A row whose mark-to-market uses the prices of before the fill.
PnlRowStalePrices(cash1, pos1, prices1) ==
    [cash |-> cash1,
     unrealized |-> M4(Unrealized(pos1, last_prices)),
     total_equity |-> MAdd(cash1, M4(Unrealized(pos1, last_prices))),
     positions |-> pos1]

\* The row of portfolio_pnl.csv, computed from the state after the update.
PnlRow(cash1, pos1, prices1) ==
    [cash |-> cash1,
     unrealized |-> M4(Unrealized(pos1, prices1)),
     total_equity |-> MAdd(cash1, M4(Unrealized(pos1, prices1))),
     positions |-> pos1]

\* A signed quantity that takes every Fill for a BUY.
QtySignedAlwaysBuy(fill) == fill.quantity

\* qty_signed = float(fill.quantity) if BUY else -float(fill.quantity)
QtySigned(fill) ==
    IF fill.direction = "BUY" THEN fill.quantity ELSE 0 - fill.quantity

\* PortfolioHandler.on_fill.  The exception of a weight that float()
\* rejects is caught inside the attribution loop and dropped.  Its publishes
\* of PORTFOLIO_MARK and ALPHA_PNL_TICK have no subscriber and return at once.
on_fill(c) ==
    /\ c \in 1..Len(chains)
    /\ chains[c].pc = "fill"
    /\ LET fill == chains[c].fill
           symbol == fill.symbol
           qty_signed == QtySigned(fill)
           scores == FillScores(fill)
       IN  /\ positions' = [positions EXCEPT ![symbol] = @ + qty_signed]
           /\ last_prices' = [last_prices EXCEPT ![symbol] = fill.fill_price]
           /\ cash' = CashAfter(fill)
           /\ alpha_virtual_pos' =
                 [a \in Alphas |->
                     IF a \in DOMAIN scores /\ scores[a] # NotANumber
                     THEN [alpha_virtual_pos[a] EXCEPT ![symbol] = @ + qty_signed * scores[a]]
                     ELSE alpha_virtual_pos[a]]
           /\ portfolio_pnl' = PnlRow(cash', positions', last_prices')
           /\ chains' = [chains EXCEPT ![c].pc = "done",
                                       ![c].exc = \E a \in DOMAIN scores : scores[a] = NotANumber]
    /\ UNCHANGED <<execVars, utcnow>>
    /\ UNCHANGED notTrading

\* datetime.utcnow() moves on.  The model lets it move while an Order that
\* carries the current reading is in flight, which is all an order_id can
\* tell of the clock.
ClockTick ==
    /\ \E c \in 1..Len(chains) :
          chains[c].pc \in {"order", "sleep"} /\ chains[c].order.order_id = utcnow
    /\ utcnow' = utcnow + 1
    /\ UNCHANGED <<ledgerVars, execVars, chains>>
    /\ UNCHANGED notTrading

\* The sleep of _simulate_fill (50 to 150 ms) outlasts a clock reading.
SleepOver(c) == chains[c].order.order_id < utcnow

LedgerNext ==
    \/ \E signal \in Signals : PublishSignal(signal)
    \/ \E c \in 1..MaxSignals : on_signal(c)
    \/ \E c \in 1..MaxSignals : on_order(c)
    \/ \E c \in 1..MaxSignals : c \in 1..Len(chains) /\ SleepOver(c) /\ _simulate_fill(c)
    \/ \E c \in 1..MaxSignals : on_fill(c)
    \/ ClockTick

\* No publish of a Signal is in progress.
NoChainInProgress == \A c \in 1..Len(chains) : chains[c].pc \in {"done", "raised"}

\* The ledger and the simulator with one publisher, which awaits each
\* publish('SIGNAL', s) before the next.
SequentialNext ==
    \/ \E signal \in Signals \cup BadSignals : NoChainInProgress /\ PublishSignal(signal)
    \/ \E c \in 1..MaxSignals : on_signal(c)
    \/ \E c \in 1..MaxSignals : on_order(c)
    \/ \E c \in 1..MaxSignals : c \in 1..Len(chains) /\ SleepOver(c) /\ _simulate_fill(c)
    \/ \E c \in 1..MaxSignals : on_fill(c)
    \/ ClockTick

\* The execution simulator alone on a bus, as in tests/test_order_execution.py:
\* nothing is subscribed to FILL.
ExecNext ==
    \/ \E order \in TestOrders(Len(chains) + 1) : PublishOrder(order)
    \/ \E c \in 1..MaxOrders : on_order(c)
    \/ \E c \in 1..MaxOrders : _simulate_fill(c)


\* ========================================================================
\* CandlestickAggregator
\* ========================================================================
\* A timeframe string is the list of its characters.  A timestamp is the
\* instant it names, in seconds since the epoch (UTC); BadStamp is one that
\* datetime.fromisoformat rejects, BadPrice a price that float() rejects.
Digits == {"0", "1", "2", "3", "4", "5", "6", "7", "8", "9"}
DigitValue(ch) ==
    CASE ch = "0" -> 0 [] ch = "1" -> 1 [] ch = "2" -> 2 [] ch = "3" -> 3
      [] ch = "4" -> 4 [] ch = "5" -> 5 [] ch = "6" -> 6 [] ch = "7" -> 7
      [] ch = "8" -> 8 [] ch = "9" -> 9

\* int(text) for a text without sign or blanks: [ok, value]
RECURSIVE DigitsValue(_)
DigitsValue(text) ==
    IF text = <<>> THEN 0
    ELSE 10 * DigitsValue(SubSeq(text, 1, Len(text) - 1)) + DigitValue(text[Len(text)])

int(text) ==
    IF text # <<>> /\ \A i \in 1..Len(text) : text[i] \in Digits
    THEN [ok |-> TRUE, value |-> DigitsValue(text)]
    ELSE [ok |-> FALSE, value |-> 0]

\* One entry of _parse_timeframes: [ok, secs]; ok is FALSE for a ValueError.
ParseTimeframe(tf) ==
    LET head == IF tf = <<>> THEN <<>> ELSE SubSeq(tf, 1, Len(tf) - 1)
        unit == IF tf = <<>> THEN "" ELSE tf[Len(tf)]
    IN  IF unit = "m" THEN [ok |-> int(head).ok, secs |-> int(head).value * 60]
        ELSE IF unit = "h" THEN [ok |-> int(head).ok, secs |-> int(head).value * 3600]
        ELSE [ok |-> FALSE, secs |-> 0]

\* CandlestickAggregator._parse_timeframes: [ok, mapping]
_parse_timeframes(tfs) ==
    [ok |-> \A i \in 1..Len(tfs) : ParseTimeframe(tfs[i]).ok,
     mapping |-> [i \in 1..Len(tfs) |-> [tf |-> tfs[i], secs |-> ParseTimeframe(tfs[i]).secs]]]

\* The timeframes an aggregator is built with: the default of the
\* constructor, and others.
TimeframeChoices ==
    { << <<"1", "m">>, <<"5", "m">>, <<"1", "h">> >>,
      << <<"2", "h">> >>,
      << <<"7", "m">> >>,
      << <<"1", "5", "m">>, <<"0", "m">> >>,
      << <<"1", "m">>, <<"1", "d">> >>,
      << <<"m">> >> }


\* The ticks published on RAW_MARKET.
Ticks ==
    [symbol : {"btcusdt"}, price : {100, 102}, volume : {1}, timestamp : {0, 30},
     source : {"BINANCE"},
     has_source : {TRUE}]
    \cup
    [symbol : {"btcusdt"}, price : {101}, volume : {1}, timestamp : {30},
     source : {"BINANCE"},
     has_source : {TRUE}]
    \cup
    [symbol : {"btcusdt"}, price : {100}, volume : {1}, timestamp : {60, 3600},
     source : {"BINANCE"},
     has_source : {TRUE}]
    \cup
    [symbol : {"ETHUSDT"}, price : {100}, volume : {1}, timestamp : {0},
     source : {"BINANCE"},
     has_source : {TRUE}]
    \cup
    [symbol : {"btcusdt"}, price : {BadPrice}, volume : {1}, timestamp : {60},
     source : {"BINANCE"},
     has_source : {TRUE}]
    \cup
    [symbol : {"btcusdt"}, price : {100}, volume : {1}, timestamp : {BadStamp},
     source : {"BINANCE"},
     has_source : {TRUE}]
    \cup
    [symbol : {"btcusdt"}, price : {100}, volume : {1}, timestamp : {60},
     source : {""},
     has_source : {FALSE}]

AggInit ==
    /\ timeframes \in {_parse_timeframes(tfs).mapping :
                          tfs \in {t \in TimeframeChoices : _parse_timeframes(t).ok}}
    /\ buffers = [s \in Symbols |-> [k \in 1..Len(timeframes) |-> <<>>]]
    /\ on_tick_calls = <<>>
    /\ snapshots = <<>>

\* CandlestickAggregator._get_bucket_start, for secs # 0:
\* ts.replace(second=0, microsecond=0) - timedelta(seconds=(ts.minute * 60 + 0) % secs)
_get_bucket_start(ts, secs) ==
    LET floored == ts - (ts % 60)
        minute == (ts \div 60) % 60
        delta == (minute * 60 + 0) % secs
    IN  floored - delta

Last(seq) == seq[Len(seq)]

\* The candle a tick opens.
NewBar(bucket_start, tf, price, volume) ==
    [start |-> bucket_start, tf |-> tf, open |-> price, high |-> price,
     low |-> price, close |-> price, volume |-> volume]

\* A bar that keeps the volume of its first tick.
UpdateBarKeepVolume(bar, price, volume) ==
    [bar EXCEPT !.high = max(@, price), !.low = min(@, price), !.close = price]

\* A bar that keeps its high whatever the price.
UpdateBarKeepHigh(bar, price, volume) ==
    [bar EXCEPT !.low = min(@, price), !.close = price, !.volume = @ + volume]

\* The ongoing candle after a tick of its bucket (update_tick, else branch).
UpdateBar(bar, price, volume) ==
    [bar EXCEPT !.high = max(@, price), !.low = min(@, price),
                !.close = price, !.volume = @ + volume]

\* One turn of the loop of update_tick, for the timeframe of index k, on
\* st = [bufs, finished, raised].  secs = 0 raises ZeroDivisionError in
\* _get_bucket_start, which ends the loop.
UpdateTimeframe(st, k, price, volume, timestamp) ==
    LET tf == timeframes[k].tf
        secs == timeframes[k].secs
        buf == st.bufs[k]
        bucket_start == _get_bucket_start(timestamp, secs)
    IN  IF st.raised THEN st
        ELSE IF secs = 0 THEN [st EXCEPT !.raised = TRUE]
        ELSE IF buf = <<>> \/ Last(buf).start # bucket_start
        THEN [st EXCEPT
                !.finished = IF buf # <<>> THEN Append(@, Last(buf)) ELSE @,
                !.bufs[k] = Append(buf, NewBar(bucket_start, tf, price, volume))]
        ELSE [st EXCEPT
                !.bufs[k][Len(buf)] = UpdateBar(Last(buf), price, volume)]

\* The loop of update_tick up to the timeframe of index k, from the
\* buffers bufs of the symbol.
RECURSIVE UpdateFrom(_, _, _, _, _)
UpdateFrom(bufs, k, price, volume, timestamp) ==
    IF k = 0 THEN [bufs |-> bufs, finished |-> <<>>, raised |-> FALSE]
    ELSE UpdateTimeframe(UpdateFrom(bufs, k - 1, price, volume, timestamp),
                         k, price, volume, timestamp)

UpdateUpTo(k, symbol, price, volume, timestamp) ==
    UpdateFrom(buffers[symbol], k, price, volume, timestamp)

\* CandlestickAggregator.update_tick: the buffers of the symbol after the
\* tick, the candles it finished, and whether it raised.
update_tick(symbol, price, volume, timestamp) ==
    UpdateUpTo(Len(timeframes), symbol, price, volume, timestamp)

\* The try block of on_tick fails: a timestamp or a price that does not parse.
BadTick(tick) == tick.timestamp = BadStamp \/ tick.price = BadPrice

\* CandlestickAggregator.on_tick up to its first publish: a bad tick is
\* dropped, else the buffers are updated and the finished candles wait to
\* be published.
on_tick(tick) ==
    /\ Len(on_tick_calls) < MaxCalls
    /\ LET symbol == upper(tick.symbol)
           r == update_tick(symbol, tick.price, tick.volume, tick.timestamp)
       IN  IF BadTick(tick)
           THEN /\ on_tick_calls' = Append(on_tick_calls,
                       [pc |-> "dropped", tick |-> tick, symbol |-> symbol, finished |-> <<>>])
                /\ UNCHANGED buffers
           ELSE /\ buffers' = [buffers EXCEPT ![symbol] = r.bufs]
                /\ on_tick_calls' = Append(on_tick_calls,
                       [pc |-> IF r.raised THEN "raised"
                               ELSE IF r.finished = <<>> THEN "done" ELSE "publish",
                        tick |-> tick, symbol |-> symbol,
                        finished |-> IF r.raised THEN <<>> ELSE r.finished])
    /\ UNCHANGED <<timeframes, snapshots>>
    /\ UNCHANGED notAgg

\* The message on_tick builds for a finished candle.
Snapshot(frame, candle) ==
    [timestamp |-> candle.start, source |-> frame.tick.source, symbol |-> frame.symbol,
     timeframe |-> candle.tf,
     payload |-> [open |-> candle.open, high |-> candle.high, low |-> candle.low,
                  close |-> candle.close, volume |-> candle.volume, is_closed |-> TRUE]]

\* One turn of the loop of on_tick over the finished candles: the message
\* is built, which raises KeyError for a tick without "source", and
\* published on MARKET_SNAPSHOT.
PublishCandle(i) ==
    /\ i \in 1..Len(on_tick_calls)
    /\ on_tick_calls[i].pc = "publish"
    /\ LET frame == on_tick_calls[i]
           rest == Tail(frame.finished)
       IN  IF ~frame.tick.has_source
           THEN /\ on_tick_calls' = [on_tick_calls EXCEPT ![i].pc = "raised"]
                /\ UNCHANGED snapshots
           ELSE /\ snapshots' = Append(snapshots, Snapshot(frame, Head(frame.finished)))
                /\ on_tick_calls' =
                      [on_tick_calls EXCEPT ![i].finished = rest,
                                            ![i].pc = IF rest = <<>> THEN "done" ELSE "publish"]
    /\ UNCHANGED <<timeframes, buffers>>
    /\ UNCHANGED notAgg

AggNext ==
    \/ \E tick \in Ticks : on_tick(tick)
    \/ \E i \in 1..MaxCalls : PublishCandle(i)

\* The call of on_tick that a subscription of RAW_MARKET makes for a
\* published tick: delivery numbers the subscriptions of on_tick.
OnTickCall(tick, symbol, r, delivery) ==
    [pc |-> IF BadTick(tick) THEN "dropped"
            ELSE IF r.raised THEN "raised"
            ELSE IF r.finished = <<>> THEN "done" ELSE "publish",
     tick |-> tick, symbol |-> symbol,
     finished |-> IF BadTick(tick) \/ r.raised THEN <<>> ELSE r.finished,
     delivery |-> delivery]

\* bus.publish("RAW_MARKET", tick) on the bus that run_engine.py and
\* run_backtest.py assemble: the constructor of the aggregator subscribes
\* on_tick to RAW_MARKET and the entry point subscribes it again, and
\* subscribe appends without looking, so publish gathers on_tick twice.
\* Both calls run update_tick before either publishes a candle.
publish_raw(tick) ==
    /\ Len(on_tick_calls) + 2 <= MaxCalls
    /\ LET symbol == upper(tick.symbol)
           first == UpdateFrom(buffers[symbol], Len(timeframes),
                               tick.price, tick.volume, tick.timestamp)
           second == UpdateFrom(first.bufs, Len(timeframes),
                                tick.price, tick.volume, tick.timestamp)
       IN  /\ buffers' = IF BadTick(tick) THEN buffers
                         ELSE [buffers EXCEPT ![symbol] = second.bufs]
           /\ on_tick_calls' = on_tick_calls \o
                                   << OnTickCall(tick, symbol, first, 1),
                                      OnTickCall(tick, symbol, second, 2) >>
    /\ UNCHANGED <<timeframes, snapshots>>
    /\ UNCHANGED notAgg

EntryNext ==
    \/ \E tick \in Ticks : publish_raw(tick)
    \/ \E i \in 1..MaxCalls : PublishCandle(i)

\* ========================================================================
\* MultiStrategyManager
\* ========================================================================
\* The alphas of the manager, in the order of self.alphas.  What an alpha
\* answers for a candle is an input here: a score in hundredths.
AlphaNames == <<"meanreversion", "momentum", "atrgaussian", "macdfibonacci", "genericalpha">>

\* alpha_weights = 1.0 / len(self.alphas) for every alpha: the weighted sum
\* of scores in hundredths is counted in units of 1 / CombinedScale.
CombinedScale == ScoreScale * Len(AlphaNames)

\* multi_strategy_manager.py:13 and :165, in hundredths
THRESHOLD == 5
SpamDelta == 5

ScoresOf(a, b, c, d, e) ==
    [i \in 1..Len(AlphaNames) |-> <<a, b, c, d, e>>[i]]

\* alpha.score(candle) raises an exception instead of answering.
AlphaRaises == 0 - 1000

\* The answers of the five alphas to one candle.
ScoreChoices ==
    { ScoresOf(0, 0, 0, 0, 0),
      ScoresOf(15, 0, 0, 0, 0),
      ScoresOf(25, 0, 0, 0, 0),
      ScoresOf(20, 15, 0, 0, 0),
      ScoresOf(0 - 100, 0 - 50, 0, 0, 0),
      ScoresOf(100, 100, 100, 100, 100),
      ScoresOf(300, 300, 0, 0, 0),
      ScoresOf(AlphaRaises, 100, 100, 0, 0) }

\* scores[name] = float(alpha.score(candle)), and 0.0 when that raises
ScoresFrom(answers) ==
    [i \in 1..Len(AlphaNames) |-> IF answers[i] = AlphaRaises THEN 0 ELSE answers[i]]

\* The alphas whose score raised.
RaisedIn(answers) == {i \in 1..Len(AlphaNames) : answers[i] = AlphaRaises}

\* The snapshots delivered on MARKET_SNAPSHOT: the dicts the aggregator
\* publishes, reduced to symbol and close; one has a close of 0.
CandleChoices ==
    [symbol : {"btcusdt"}, close : {100, 0}] \cup [symbol : {"ETHUSDT"}, close : {50}]

ManagerInit ==
    /\ last_published_score = [s \in Symbols |-> 0]
    /\ signals = <<>>
    /\ alpha_scores = <<>>
    /\ on_snapshot_calls = <<>>

\* _extract_candle fails: float(payload.get("close") or payload.get("price"))
\* of a close of 0 and no price.
ExtractFails(snapshot) == snapshot.close = 0

\* combined = sum(self.alpha_weights[name] * scores[name] for name in self.alphas)
Combined(scores) == SumOver(1..Len(AlphaNames), scores)

\* A blend that is not set to 0 below the threshold.
BlendWithoutThreshold(scores) ==
    max(0 - CombinedScale, min(CombinedScale, Combined(scores)))

\* if abs(combined) < THRESHOLD: combined = 0.0
\* combined = max(-1.0, min(1.0, combined))
\* with the scores counted in units of 1 / one
BlendAt(one, scores) ==
    LET combined == IF abs(Combined(scores)) * ScoreScale < THRESHOLD * one * Len(AlphaNames)
                    THEN 0 ELSE Combined(scores)
    IN  max(0 - one * Len(AlphaNames), min(one * Len(AlphaNames), combined))

Blend(scores) == BlendAt(ScoreScale, scores)

\* A manager that publishes whatever the last published score was.
IsSpamNever(symbol, combined) == FALSE

\* abs(combined - self.last_published_score[symbol]) < 0.05
\* with the scores counted in units of 1 / one
IsSpamAt(one, last, combined) ==
    abs(combined - last) * ScoreScale < SpamDelta * one * Len(AlphaNames)

IsSpam(symbol, combined) == IsSpamAt(ScoreScale, last_published_score[symbol], combined)

\* The record of one call: which alphas raised, whether the call published
\* a Signal, and how it ended.
SnapshotCall(answers, published) ==
    [alpha_raised |-> RaisedIn(answers), published |-> published, pc |-> "returned"]

\* MultiStrategyManager.on_market_snapshot for an enabled manager, which
\* runs without suspending up to its publish of the Signal.
ManagerStep(snapshot, answers) ==
    /\ Len(on_snapshot_calls) < MaxCandles
    /\ LET symbol == upper(snapshot.symbol)
           scores == ScoresFrom(answers)
           combined == Blend(scores)
       IN  IF ExtractFails(snapshot)
           THEN /\ on_snapshot_calls' = Append(on_snapshot_calls, SnapshotCall(ScoresOf(0, 0, 0, 0, 0), FALSE))
                /\ UNCHANGED <<last_published_score, signals, alpha_scores>>
           ELSE /\ alpha_scores' = Append(alpha_scores,
                      [symbol |-> symbol, price |-> snapshot.close, scores |-> scores,
                       combined_after_threshold |-> combined])
                /\ on_snapshot_calls' = Append(on_snapshot_calls,
                      SnapshotCall(answers, ~IsSpam(symbol, combined)))
                /\ IF IsSpam(symbol, combined)
                   THEN UNCHANGED <<last_published_score, signals>>
                   ELSE /\ last_published_score' =
                              [last_published_score EXCEPT ![symbol] = combined]
                        /\ signals' = Append(signals,
                              [symbol |-> symbol, direction |-> "TARGET",
                               score |-> combined, price |-> snapshot.close,
                               meta |-> [alpha |-> "multi", scores |-> scores]])

\* The manager alone: nothing is subscribed to SIGNAL.
on_market_snapshot(snapshot, answers) ==
    /\ ManagerStep(snapshot, answers)
    /\ UNCHANGED notManager

\* The Signal as the ledger reads it: the score in hundredths, the scores
\* of the meta by alpha name.
SignalOf(published) ==
    [symbol |-> published.symbol, direction |-> published.direction,
     score |-> published.score \div Len(AlphaNames), price |-> published.price,
     meta |-> [alpha |-> published.meta.alpha, has_scores |-> TRUE,
               scores |-> [a \in {AlphaNames[i] : i \in 1..Len(AlphaNames)} |->
                              published.meta.scores[CHOOSE i \in 1..Len(AlphaNames) :
                                                        AlphaNames[i] = a]]]]

\* The manager on the bus of the ledger and the execution simulator: the
\* Signal it publishes is delivered to on_signal.  The candles come from one
\* publisher, which awaits each publish before the next.
SnapshotToSignal(snapshot, answers) ==
    /\ NoChainInProgress
    /\ Len(chains) < MaxSignals
    /\ ManagerStep(snapshot, answers)
    /\ IF Len(signals') > Len(signals)
       THEN chains' = Append(chains, [pc |-> "signal",
                                      signal |-> SignalOf(signals'[Len(signals')]),
                                      order |-> NoOrder, fill |-> NoFill, exc |-> FALSE])
       ELSE UNCHANGED chains
    /\ UNCHANGED <<ledgerVars, execVars, utcnow>>
    /\ UNCHANGED <<busVars, routerVars, aggVars, extraVars>>

PipelineNext ==
    \/ \E snapshot \in CandleChoices : \E answers \in ScoreChoices :
          SnapshotToSignal(snapshot, answers)
    \/ \E c \in 1..MaxSignals : on_signal(c)
    \/ \E c \in 1..MaxSignals : on_order(c)
    \/ \E c \in 1..MaxSignals : c \in 1..Len(chains) /\ SleepOver(c) /\ _simulate_fill(c)
    \/ \E c \in 1..MaxSignals : on_fill(c)
    \/ ClockTick

ManagerNext ==
    \E snapshot \in CandleChoices : \E answers \in ScoreChoices :
        on_market_snapshot(snapshot, answers)

\* ------------------------------------------------------------------------
\* The manager with its alphas: two runs side by side
\* ------------------------------------------------------------------------
\* self.alphas holds one instance of each strategy class, which scores the
\* candles of every symbol.  Two managers are run side by side: both get the
\* same candles of BTCUSDT, each gets candles of ETHUSDT of its own.
\*
\* Numbers: an EMA is counted in units of 1 / EmaUnit, an alpha's score in
\* units of 1 / FineScale.  tanh is 0 at 0 and is 1.0 or -1.0 in floats from
\* an argument of 20 on; a candle whose scores need any other value of tanh,
\* or a score finer than FineScale, is outside the model (exact = FALSE) and
\* is not fed.
MaxFeeds == 3
EmaUnit == ScoreScale * ScoreScale * 10
FineScale == ScoreScale * 16
TwinPrices == {100, 1000}

\* strategy_atr_gaussian.py:48: the alphas that keep a history answer 0.0
\* to fewer than atr_window + 5 = 19 candles (20 for meanreversion, :23, and
\* genericalpha, :24).
WarmUp == 14 + 5

Inexact == 0 - 9999999

\* np.tanh(x), x in units of 1 / EmaUnit; still tells that x is 0.0 exactly.
tanh(x, still) ==
    IF still THEN 0
    ELSE IF x >= 20 * EmaUnit THEN FineScale
    ELSE IF 0 - x >= 20 * EmaUnit THEN 0 - FineScale
    ELSE Inexact

\* score = smooth_alpha * raw_score + (1 - smooth_alpha) * self.prev_score,
\* smooth_alpha = 0.25
Smoothed(raw_score, prev_score) ==
    IF raw_score = Inexact \/ (raw_score + 3 * prev_score) % 4 # 0 THEN Inexact
    ELSE (raw_score + 3 * prev_score) \div 4

\* if abs(score) < 0.10: score = 0.0
DeadBand(score) == IF abs(score) * 10 < FineScale THEN 0 ELSE score

FreshMomentum == [fresh |-> TRUE, ema_short |-> 0, ema_long |-> 0, prev_score |-> 0]
FreshMACD ==
    [fresh |-> TRUE, ema_fast |-> 0, ema_slow |-> 0, ema_signal |-> 0, prev_score |-> 0]

\* MomentumStrategy.score: [self, score, exact]; short_window = 5,
\* long_window = 12.
MomentumStrategy_score(self, close) ==
    IF self.fresh
    THEN [self |-> [fresh |-> FALSE, ema_short |-> close * EmaUnit,
                    ema_long |-> close * EmaUnit, prev_score |-> 0],
          score |-> 0, exact |-> TRUE]
    ELSE LET ema_short == self.ema_short + (2 * (close * EmaUnit - self.ema_short)) \div (5 + 1)
             ema_long == self.ema_long + (2 * (close * EmaUnit - self.ema_long)) \div (12 + 1)
             spread == ema_short - ema_long
             still == self.ema_short = close * EmaUnit /\ self.ema_long = close * EmaUnit
             score == Smoothed(tanh(spread * 4, still), self.prev_score)
         IN  [self |-> [fresh |-> FALSE, ema_short |-> ema_short, ema_long |-> ema_long,
                        prev_score |-> score],
              score |-> DeadBand(score), exact |-> score # Inexact]

\* MACDFibonacciStrategy.score: [self, score, exact]; fast = 12, slow = 26,
\* signal = 9, sensitivity = 4.0.
MACDFibonacciStrategy_score(self, close) ==
    IF self.fresh
    THEN [self |-> [fresh |-> FALSE, ema_fast |-> close * EmaUnit,
                    ema_slow |-> close * EmaUnit, ema_signal |-> 0, prev_score |-> 0],
          score |-> 0, exact |-> TRUE]
    ELSE LET ema_fast == self.ema_fast + (2 * (close * EmaUnit - self.ema_fast)) \div (12 + 1)
             ema_slow == self.ema_slow + (2 * (close * EmaUnit - self.ema_slow)) \div (26 + 1)
             macd == ema_fast - ema_slow
             ema_signal == self.ema_signal + (2 * (macd - self.ema_signal)) \div (9 + 1)
             hist == macd - ema_signal
             still == /\ self.ema_fast = close * EmaUnit
                      /\ self.ema_slow = close * EmaUnit
                      /\ self.ema_signal = 0
             score == Smoothed(tanh(hist * 4, still), self.prev_score)
         IN  [self |-> [fresh |-> FALSE, ema_fast |-> ema_fast, ema_slow |-> ema_slow,
                        ema_signal |-> ema_signal, prev_score |-> score],
              score |-> DeadBand(score), exact |-> score # Inexact]

TwinInit ==
    twin = [r \in 1..2 |->
               [momentum |-> FreshMomentum, macdfibonacci |-> FreshMACD, seen |-> 0,
                last_published_score |-> [s \in Symbols |-> 0], published |-> <<>>]]

\* MultiStrategyManager.on_market_snapshot of one manager with its alphas:
\* the manager after the candle, and whether the model computes it exactly.
ManagerAfter(m, symbol, close) ==
    LET mom == MomentumStrategy_score(m.momentum, close)
        macd == MACDFibonacciStrategy_score(m.macdfibonacci, close)
        scores == ScoresOf(0, mom.score, 0, macd.score, 0)
        combined == BlendAt(FineScale, scores)
        last == m.last_published_score[symbol]
        alphas == [m EXCEPT !.momentum = mom.self, !.macdfibonacci = macd.self,
                            !.seen = @ + 1]
    IN  [exact |-> /\ mom.exact /\ macd.exact
                   /\ m.seen + 1 < WarmUp
                   /\ abs(Combined(scores)) * ScoreScale # THRESHOLD * FineScale * Len(AlphaNames)
                   /\ abs(combined - last) * ScoreScale # SpamDelta * FineScale * Len(AlphaNames),
         manager |->
            IF IsSpamAt(FineScale, last, combined) THEN alphas
            ELSE [alphas EXCEPT !.last_published_score[symbol] = combined,
                                !.published = Append(@, [symbol |-> symbol,
                                                         direction |-> "TARGET",
                                                         score |-> combined,
                                                         price |-> close])]]

\* A candle of BTCUSDT, published to both managers.
FeedBoth(close) ==
    /\ \A r \in 1..2 : twin[r].seen < MaxFeeds
    /\ \A r \in 1..2 : ManagerAfter(twin[r], "BTCUSDT", close).exact
    /\ twin' = [r \in 1..2 |-> ManagerAfter(twin[r], "BTCUSDT", close).manager]
    /\ UNCHANGED notTwin

\* A candle of ETHUSDT, published to one of the managers.
FeedOne(run, close) ==
    /\ twin[run].seen < MaxFeeds
    /\ ManagerAfter(twin[run], "ETHUSDT", close).exact
    /\ twin' = [twin EXCEPT ![run] = ManagerAfter(twin[run], "ETHUSDT", close).manager]
    /\ UNCHANGED notTwin

TwinNext ==
    \/ \E close \in TwinPrices : FeedBoth(close)
    \/ \E run \in 1..2 : \E close \in TwinPrices : FeedOne(run, close)

\* The Signals a manager has published for a symbol, in order.
RECURSIVE SignalsFor(_, _)
SignalsFor(published, symbol) ==
    IF published = <<>> THEN <<>>
    ELSE IF Head(published).symbol = symbol
         THEN <<Head(published)>> \o SignalsFor(Tail(published), symbol)
         ELSE SignalsFor(Tail(published), symbol)

\* C35: the Signals published for a symbol depend on that symbol's candles
\* only: two runs with the same candles of BTCUSDT and different candles of
\* ETHUSDT publish the same Signals for BTCUSDT.
C35_SignalsDependOnOwnSymbolOnly ==
    SignalsFor(twin[1].published, "BTCUSDT") = SignalsFor(twin[2].published, "BTCUSDT")


\* ------------------------------------------------------------------------
\* Properties of the execution simulator and the ledger
\* ------------------------------------------------------------------------
OrderIds == 1..MaxOrders

\* The Fills published on FILL that carry the order_id.
FillCount(id) ==
    Cardinality({c \in 1..Len(chains) :
        chains[c].pc \in {"fill", "done"} /\ chains[c].fill.order_id = id})

Delivered(id) ==
    \E c \in 1..Len(chains) :
        chains[c].order.order_id = id /\ chains[c].pc \in {"sleep", "fill", "done"}

\* C1: every Order delivered to on_order, in any mode and with any number of
\* Orders in flight, gets exactly one Fill carrying its order_id published
\* on FILL: never more than one, and eventually one.
C1_ExactlyOneFill ==
    /\ [](\A id \in OrderIds : FillCount(id) <= 1)
    /\ \A id \in OrderIds : Delivered(id) ~> (FillCount(id) = 1)

\* A live Order is filled while another Order is still in its sleep.
C1_Witness ==
    /\ mode = "live"
    /\ \E c1, c2 \in 1..Len(chains) :
          /\ chains[c1].pc = "fill"
          /\ FillCount(chains[c1].order.order_id) = 1
          /\ chains[c2].pc = "sleep"
          /\ FillCount(chains[c2].order.order_id) = 0

TargetSignals(symbol) ==
    {c \in 1..Len(chains) :
        /\ chains[c].signal.direction = "TARGET"
        /\ upper(chains[c].signal.symbol) = symbol}

\* The Orders published on ORDER for the symbol.
OrdersFor(symbol) ==
    {c \in 1..Len(chains) :
        chains[c].pc \in {"order", "sleep", "fill", "done"} /\ chains[c].order.symbol = symbol}

\* C4: when every Signal published for a symbol carries the same score, at
\* most one Order is ever placed for that symbol, however the dispatches of
\* the Signals interleave with the execution latency of the first Order.
C4_SameScoreOneOrder ==
    \A symbol \in Symbols :
        (\A c1, c2 \in TargetSignals(symbol) :
            chains[c1].signal.score = chains[c2].signal.score)
        => Cardinality(OrdersFor(symbol)) <= 1

\* C34: with every Fill answering one of the ledger's own Orders and all
\* positions 0 at the start, no position ever exceeds the symbol's
\* max_units in absolute value, however the Signals of concurrent
\* publishers interleave with the Fills still pending.
C34_PositionWithinMaxUnits ==
    \A symbol \in Symbols : abs(positions[symbol]) <= max_units(symbol)

\* The ledger and the table of the execution simulator.
LedgerState ==
    [cash |-> cash, positions |-> positions, alpha_virtual_pos |-> alpha_virtual_pos,
     _order_meta |-> _order_meta]

\* What _simulate_fill, its sleep over, and on_fill make of the state st
\* for an outstanding Order: the Fill takes the meta the table holds for
\* the order_id, and the ledger applies the Fill.
FilledFrom(st, order) ==
    LET fill == [symbol |-> order.symbol, quantity |-> order.quantity,
                 direction |-> order.direction, fill_price |-> FillPrice(order),
                 commission |-> Commission(order), order_id |-> order.order_id,
                 meta |-> IF order.order_id \in DOMAIN st._order_meta
                          THEN st._order_meta[order.order_id] ELSE NoMeta]
        qty_signed == QtySigned(fill)
        scores == FillScores(fill)
    IN  [cash |-> CashFrom(st.cash, fill),
         positions |-> [st.positions EXCEPT ![fill.symbol] = @ + qty_signed],
         alpha_virtual_pos |->
            [a \in Alphas |->
                IF a \in DOMAIN scores /\ scores[a] # NotANumber
                THEN [st.alpha_virtual_pos[a] EXCEPT ![fill.symbol] = @ + qty_signed * scores[a]]
                ELSE st.alpha_virtual_pos[a]],
         _order_meta |-> [id \in DOMAIN st._order_meta \ {order.order_id} |->
                             st._order_meta[id]]]

LedgerValues(st) ==
    [cash |-> st.cash, positions |-> st.positions,
     alpha_virtual_pos |-> st.alpha_virtual_pos]

\* C40: the order in which two outstanding Orders are filled does not
\* change the ledger: filling one and then the other, or the other way
\* round, gives the same cash, the same positions and the same per-alpha
\* virtual positions.
C40_FillOrderIrrelevant ==
    \A c1, c2 \in 1..Len(chains) :
        (c1 # c2 /\ chains[c1].pc = "sleep" /\ chains[c2].pc = "sleep") =>
            LedgerValues(FilledFrom(FilledFrom(LedgerState, chains[c1].order), chains[c2].order))
            = LedgerValues(FilledFrom(FilledFrom(LedgerState, chains[c2].order), chains[c1].order))

Recomputed == MAdd(cash, M4(Unrealized(positions, last_prices)))

\* C5: each time a Fill has been applied, the total_equity the ledger reports
\* equals cash plus the sum over all symbols of positions[s] * last_prices[s],
\* recomputed from the state the ledger is then in.
C5_EquityReconciles ==
    [][(\E c \in 1..MaxSignals : on_fill(c)) => portfolio_pnl'.total_equity = Recomputed']_vars

\* A Fill has been applied with both symbols held, and the reported equity
\* is the recomputed one and differs from the cash.
C5_Witness ==
    /\ \E c \in 1..Len(chains) : chains[c].pc = "done" /\ chains[c].fill # NoFill
    /\ \A s \in Symbols : positions[s] # 0
    /\ portfolio_pnl.cash = cash
    /\ portfolio_pnl.total_equity = Recomputed
    /\ portfolio_pnl.total_equity # cash


\* The publishes that have an Order, and those that also have its Fill.
WithOrder == {c \in 1..Len(chains) : chains[c].pc \in {"order", "sleep", "fill", "done"}
                                     /\ chains[c].order # NoOrder}
WithFill == {c \in WithOrder : chains[c].pc \in {"fill", "done"}}

\* C13: the meta of the Fill published for an Order equals the meta of that
\* Order, also when several Orders are outstanding in the execution
\* simulator at the same time.
C13_FillMetaIsOrderMeta ==
    \A c \in WithFill : chains[c].fill.meta = chains[c].order.meta

\* The Orders on_order has accepted and whose Fill is not yet built.
Outstanding == {c \in 1..Len(chains) : chains[c].pc = "sleep"}

\* C24: the side-table holds an entry only for Orders that were accepted and
\* are not yet filled; an Order's entry is removed when its Fill is built;
\* the table is empty whenever no Order is outstanding.
C24_MetaOnlyWhileOutstanding ==
    /\ [](\A id \in DOMAIN _order_meta :
              \E c \in Outstanding : chains[c].order.order_id = id)
    /\ [](Outstanding = {} => _order_meta = <<>>)
    /\ [][\A c \in 1..MaxSignals :
              (c \in Outstanding /\ chains'[c].pc = "fill")
                  => chains[c].order.order_id \notin DOMAIN _order_meta']_vars

\* One Order is filled and its entry is gone while another Order, with
\* another order_id, is outstanding and has its entry.
C24_Witness ==
    \E c1, c2 \in 1..Len(chains) :
        /\ c1 \in WithFill /\ c2 \in Outstanding
        /\ chains[c1].order.order_id # chains[c2].order.order_id
        /\ chains[c1].order.order_id \notin DOMAIN _order_meta
        /\ chains[c2].order.order_id \in DOMAIN _order_meta
        /\ _order_meta[chains[c2].order.order_id] = chains[c2].order.meta

\* C25: when publish('SIGNAL', s) has returned and no other publisher is
\* active, the Order generated for s, if any, has been filled and its Fill
\* applied, and positions[symbol] is clamp(score, -1, 1) * max_units[symbol].
C25_FilledBeforePublishReturns ==
    LET c == Len(chains)
    IN  (c > 0 /\ chains[c].pc = "done" /\ chains[c].order # NoOrder) =>
            LET score == chains[c].signal.score
                clamped == IF score > ScoreScale THEN ScoreScale
                           ELSE IF score < 0 - ScoreScale THEN 0 - ScoreScale
                           ELSE score
            IN  /\ chains[c].fill # NoFill
                /\ chains[c].fill.order_id = chains[c].order.order_id
                /\ positions[chains[c].order.symbol] =
                       (clamped * DEFAULT_MAX_UNITS) \div ScoreScale

\* The publish of a Signal of score -1.5 has returned after a BUY and a
\* SELL were filled: the position is -0.01.
C25_Witness ==
    /\ Len(chains) >= 2
    /\ chains[1].pc = "done" /\ chains[1].order.direction = "BUY"
    /\ chains[Len(chains)].pc = "done"
    /\ chains[Len(chains)].signal.score = 0 - 150
    /\ chains[Len(chains)].order.direction = "SELL"
    /\ positions["BTCUSDT"] = 0 - DEFAULT_MAX_UNITS

\* C28: for each (alpha, weight) pair of a Fill's meta.scores the ledger adds
\* weight * signed quantity to alpha_virtual_pos[alpha][symbol] and changes
\* no other alpha's or symbol's virtual position; a Fill whose meta has no
\* scores is attributed to the single alpha GENERIC with weight 1.0.
C28_FillAttributed ==
    [][\A c \in 1..MaxSignals :
          on_fill(c) =>
             LET fill == chains[c].fill
                 signed == IF fill.direction = "BUY" THEN fill.quantity
                           ELSE 0 - fill.quantity
             IN  \A a \in Alphas : \A s \in Symbols :
                    alpha_virtual_pos'[a][s] - alpha_virtual_pos[a][s] =
                       IF s # fill.symbol THEN 0
                       ELSE IF fill.meta.has_scores
                            THEN IF a \in DOMAIN fill.meta.scores
                                 THEN fill.meta.scores[a] * signed ELSE 0
                            ELSE IF a = "GENERIC" THEN ScoreScale * signed ELSE 0]_vars

\* A Fill with the scores momentum 1.0 and meanreversion 0.6 and a Fill
\* whose meta has no scores have been applied.
C28_Witness ==
    /\ \E c \in WithFill :
          /\ chains[c].pc = "done" /\ chains[c].fill.meta = BlendMeta
          /\ alpha_virtual_pos["meanreversion"][chains[c].fill.symbol] # 0
    /\ \E c \in WithFill :
          /\ chains[c].pc = "done" /\ ~chains[c].fill.meta.has_scores
          /\ alpha_virtual_pos["GENERIC"][chains[c].fill.symbol] # 0

\* C30: an exception raised inside on_signal or on_fill while it processes
\* its event is re-raised to the publisher.
C30_LedgerReraises ==
    \A c \in 1..Len(chains) : chains[c].exc => chains[c].pc = "raised"

\* C14: every Order emitted by on_signal carries an order_id different from
\* that of every other Order of the ledger, however close in time the two
\* are created.
C14_OrderIdsDistinct ==
    \A c1, c2 \in WithOrder :
        c1 # c2 => chains[c1].order.order_id # chains[c2].order.order_id


\* C15: on a TARGET Signal, target = clamp(score, -1, 1) * max_units[symbol]
\* and delta = target - positions[symbol]; if |delta| < max(1e-6, 4e-4) no
\* Order is published, otherwise one Order with quantity = |delta| > 0 and
\* direction BUY if delta > 0 else SELL.
C15_SignalToOrder ==
    [][\A c \in 1..MaxSignals :
          (on_signal(c) /\ chains[c].signal.direction = "TARGET") =>
             LET score == chains[c].signal.score
                 symbol == upper(chains[c].signal.symbol)
                 clamped == IF score > ScoreScale THEN ScoreScale
                            ELSE IF score < 0 - ScoreScale THEN 0 - ScoreScale
                            ELSE score
                 delta == (clamped * DEFAULT_MAX_UNITS) \div ScoreScale - positions[symbol]
                 size == IF delta < 0 THEN 0 - delta ELSE delta
             IN  IF size * MicroPerUnit < DELTA_THRESHOLD
                 THEN chains'[c].pc = "done" /\ chains'[c].order = NoOrder
                 ELSE /\ chains'[c].pc = "order"
                      /\ chains'[c].order.symbol = symbol
                      /\ chains'[c].order.quantity = size
                      /\ chains'[c].order.quantity > 0
                      /\ chains'[c].order.direction = IF delta > 0 THEN "BUY" ELSE "SELL"]_vars

\* Score 0.8 at position 0 gave BUY 0.008, a score of 0.03 gave no Order,
\* and a score of -1.5 gave a SELL of the clamped size.
C15_Witness ==
    /\ \E c \in WithOrder :
          /\ chains[c].signal.score = 80
          /\ chains[c].order.direction = "BUY" /\ chains[c].order.quantity = 80
    /\ \E c \in 1..Len(chains) :
          /\ chains[c].signal.score = 3 /\ chains[c].signal.direction = "TARGET"
          /\ chains[c].pc = "done" /\ chains[c].order = NoOrder
    /\ \E c \in WithOrder :
          chains[c].signal.score = 0 - 150 /\ chains[c].order.direction = "SELL"

\* C16: a Fill for symbol s adds its quantity to positions[s] for a BUY and
\* subtracts it for a SELL, sets last_prices[s] to the fill price, takes
\* fill_price * quantity + commission from the cash for a BUY and adds
\* fill_price * quantity - commission for a SELL; the position and last
\* price of every other symbol stay.
C16_FillApplied ==
    [][\A c \in 1..MaxSignals :
          on_fill(c) =>
             LET fill == chains[c].fill
                 value == M4(fill.fill_price * fill.quantity)
             IN  /\ positions'[fill.symbol] =
                       IF fill.direction = "BUY"
                       THEN positions[fill.symbol] + fill.quantity
                       ELSE positions[fill.symbol] - fill.quantity
                 /\ last_prices'[fill.symbol] = fill.fill_price
                 /\ IF fill.direction = "BUY"
                    THEN MAdd(cash', MAdd(value, fill.commission)) = cash
                    ELSE MAdd(cash, value) = MAdd(cash', fill.commission)
                 /\ \A s \in Symbols \ {fill.symbol} :
                       positions'[s] = positions[s] /\ last_prices'[s] = last_prices[s]]_vars

\* A BUY and a SELL have been applied, and a symbol other than the one of
\* a Fill holds a position.
C16_Witness ==
    /\ \E c \in WithFill : chains[c].pc = "done" /\ chains[c].fill.direction = "BUY"
    /\ \E c \in WithFill : chains[c].pc = "done" /\ chains[c].fill.direction = "SELL"
    /\ \A s \in Symbols : positions[s] # 0
    /\ cash # [hi |-> initial_cash * BPS, lo |-> 0]

\* C17: the Fill for an Order has fill_price = order.price plus
\* (slippage_bps / 10000) * order.price for a BUY, minus it for a SELL,
\* commission = (commission_bps / 10000) * fill_price * quantity, and the
\* symbol, the full quantity and the direction of the Order.
C17_FillOfOrder ==
    \A c \in WithFill :
        LET order == chains[c].order
            fill == chains[c].fill
        IN  /\ fill.fill_price =
                  IF order.direction = "BUY"
                  THEN order.price * (BPS + slippage_bps)
                  ELSE order.price * (BPS - slippage_bps)
            /\ fill.commission.hi * MUnit + fill.commission.lo
                  = commission_bps * fill.fill_price * fill.quantity
            /\ fill.symbol = order.symbol
            /\ fill.quantity = order.quantity
            /\ fill.direction = order.direction

\* Price 100 with 3 bps gives 100.03 for the BUY of 0.008, with a commission
\* of 0.000080024, and 99.97 for a SELL.
C17_Witness ==
    /\ \E c \in WithFill :
          /\ chains[c].order.direction = "BUY" /\ chains[c].order.price = 100
          /\ chains[c].order.quantity = 80
          /\ chains[c].fill.fill_price = 1000300
          /\ chains[c].fill.commission = [hi |-> 0, lo |-> 80024000]
    /\ \E c \in WithFill :
          /\ chains[c].order.direction = "SELL" /\ chains[c].order.price = 100
          /\ chains[c].fill.fill_price = 999700


\* ------------------------------------------------------------------------
\* Properties of the aggregator
\* ------------------------------------------------------------------------
\* C9: every candle published as closed has high >= max(open, close) and
\* low <= min(open, close), for every symbol, timeframe and tick sequence.
C9_ClosedCandleBounds ==
    \A i \in 1..Len(snapshots) :
        LET p == snapshots[i].payload
        IN  /\ p.is_closed
            /\ p.high >= max(p.open, p.close)
            /\ p.low <= min(p.open, p.close)

\* A closed candle that took two ticks of different prices is published.
C9_Witness ==
    \E i \in 1..Len(snapshots) :
        LET p == snapshots[i].payload
        IN  p.high > p.low /\ p.volume > 1

\* The call of on_tick that ran last, when it took its tick.
LastTickTaken ==
    /\ on_tick_calls # <<>>
    /\ Last(on_tick_calls).pc # "dropped"

\* C10: for every timeframe _parse_timeframes accepts, the bucket_start of
\* every candle is a multiple of the timeframe's length since the epoch, and
\* the candle of a tick, which the tick opened or found open with the
\* bucket_start computed for it, has
\* bucket_start <= tick time < bucket_start + length.
C10_BucketStartAligned ==
    /\ \A s \in Symbols : \A k \in 1..Len(timeframes) :
          \A j \in 1..Len(buffers[s][k]) :
              buffers[s][k][j].start % timeframes[k].secs = 0
    /\ LastTickTaken =>
          \A k \in 1..Len(timeframes) :
              LET frame == Last(on_tick_calls)
                  buf == buffers[frame.symbol][k]
              IN  buf # <<>> =>
                     /\ Last(buf).start <= frame.tick.timestamp
                     /\ frame.tick.timestamp < Last(buf).start + timeframes[k].secs


\* The ticks on_tick took for the symbol, in the order of the calls.
RECURSIVE TakenUpTo(_, _)
TakenUpTo(symbol, n) ==
    IF n = 0 THEN <<>>
    ELSE IF on_tick_calls[n].pc # "dropped" /\ on_tick_calls[n].symbol = symbol
         THEN Append(TakenUpTo(symbol, n - 1), on_tick_calls[n].tick)
         ELSE TakenUpTo(symbol, n - 1)

TakenTicks(symbol) == TakenUpTo(symbol, Len(on_tick_calls))

\* The timeframes update_tick reaches on every tick: none before them has
\* a length of 0.
Reached(k) == \A i \in 1..k : timeframes[i].secs # 0

Bucket(k, tick) == _get_bucket_start(tick.timestamp, timeframes[k].secs)

\* The ticks fall in runs of one bucket: the run the n-th tick belongs to.
RunOf(k, ticks, n) ==
    1 + Cardinality({m \in 2..n : Bucket(k, ticks[m]) # Bucket(k, ticks[m - 1])})

Members(k, ticks, j) == {n \in 1..Len(ticks) : RunOf(k, ticks, n) = j}

Lowest(S) == CHOOSE x \in S : \A y \in S : x <= y
Highest(S) == CHOOSE x \in S : \A y \in S : x >= y

RECURSIVE PublishedUpTo(_, _)
PublishedUpTo(symbol, n) ==
    IF n = 0 THEN <<>>
    ELSE IF /\ on_tick_calls[n].pc # "dropped"
            /\ on_tick_calls[n].symbol = symbol
            /\ on_tick_calls[n].delivery = 1
         THEN Append(PublishedUpTo(symbol, n - 1), on_tick_calls[n].tick)
         ELSE PublishedUpTo(symbol, n - 1)

PublishedTicks(symbol) == PublishedUpTo(symbol, Len(on_tick_calls))

\* C36: in the pipelines of run_backtest.py and run_engine.py each tick
\* published on RAW_MARKET is applied to each (symbol, timeframe) candle
\* exactly once: the volume of a closed candle is the sum of the volumes of
\* the published ticks of its bucket.
C36_VolumeOfPublishedTicks ==
    \A s \in Symbols : \A k \in 1..Len(timeframes) :
        Reached(k) =>
            LET ticks == PublishedTicks(s)
                buf == buffers[s][k]
            IN  \A j \in 1..(Len(buf) - 1) :
                    LET M == Members(k, ticks, j)
                    IN  buf[j].volume = SumOver(M, [n \in M |-> ticks[n].volume])

\* C37: for each symbol and timeframe the bucket starts of the candles the
\* aggregator closes are strictly increasing, whatever ticks on_tick
\* receives, so that no bucket is closed as two candles.
C37_BucketStartsIncrease ==
    \A s \in Symbols : \A k \in 1..Len(timeframes) :
        LET buf == buffers[s][k]
        IN  \A i, j \in 1..(Len(buf) - 1) : i < j => buf[i].start < buf[j].start

\* The messages published for the symbol and the timeframe of index k.
PublishedFor(s, k) ==
    {i \in 1..Len(snapshots) :
        snapshots[i].symbol = s /\ snapshots[i].timeframe = timeframes[k].tf}

\* The finished candles of the symbol and the timeframe that a call of
\* on_tick still has to publish.
PendingFor(s, k) ==
    {<<i, n>> \in (1..Len(on_tick_calls)) \X (1..Len(timeframes)) :
        /\ on_tick_calls[i].pc = "publish"
        /\ on_tick_calls[i].symbol = s
        /\ n <= Len(on_tick_calls[i].finished)
        /\ on_tick_calls[i].finished[n].tf = timeframes[k].tf}

IsMessageOf(msg, bar) ==
    /\ msg.timestamp = bar.start
    /\ msg.payload.open = bar.open /\ msg.payload.high = bar.high
    /\ msg.payload.low = bar.low /\ msg.payload.close = bar.close
    /\ msg.payload.volume = bar.volume

\* C12: each closed candle is published on MARKET_SNAPSHOT exactly once, at
\* the rollover of its bucket, as it stands in the buffer: the closed candles
\* of a symbol and timeframe are as many as the messages published for them
\* plus those the call that closed them is about to publish, and each message
\* is one of the closed candles.  Stated for timeframes of a length above 0.
C12_ClosedCandlePublishedOnce ==
    \A s \in Symbols : \A k \in 1..Len(timeframes) :
        LET buf == buffers[s][k]
        IN  Reached(Len(timeframes)) =>
            /\ Cardinality(PublishedFor(s, k)) + Cardinality(PendingFor(s, k))
                  = max(Len(buf) - 1, 0)
            /\ \A i \in PublishedFor(s, k) :
                  \E j \in 1..(Len(buf) - 1) : IsMessageOf(snapshots[i], buf[j])

\* A tick with a timestamp or price that does not parse, or without source.
Malformed(tick) == BadTick(tick) \/ ~tick.has_source

\* C26: every tick the aggregator processes has first been reordered by the
\* stream router: for each symbol the aggregator takes the ticks in
\* non-decreasing timestamp order.
C26_AggregatorInputOrdered ==
    \A i, j \in 1..Len(on_tick_calls) :
        (/\ i < j
         /\ ~BadTick(on_tick_calls[i].tick) /\ ~BadTick(on_tick_calls[j].tick)
         /\ upper(on_tick_calls[i].tick.symbol) = upper(on_tick_calls[j].tick.symbol))
        => on_tick_calls[i].tick.timestamp <= on_tick_calls[j].tick.timestamp

\* C20: a tick with an unparseable or missing timestamp, price, symbol or
\* source is dropped: on_tick returns without raising, publishes nothing
\* for it and leaves every buffer as it was.
C20_MalformedTickDropped ==
    \A i \in 1..Len(on_tick_calls) :
        Malformed(on_tick_calls[i].tick) => on_tick_calls[i].pc = "dropped"

\* ------------------------------------------------------------------------
\* Properties of the strategy manager
\* ------------------------------------------------------------------------
\* The weighted sum of five scores in hundredths, each of weight 1/5, in
\* five-hundredths.
WeightedSum(scores) == scores[1] + scores[2] + scores[3] + scores[4] + scores[5]

\* The blended score of the claim for a weighted sum, in five-hundredths:
\* 0.05 is 25 of them and 1 is 500.
Blended(sum) ==
    IF sum > 0 - 25 /\ sum < 25 THEN 0
    ELSE IF sum > 500 THEN 500
    ELSE IF sum < 0 - 500 THEN 0 - 500
    ELSE sum

\* C18: for every candle the blended score is the weighted sum of the scores
\* of all alphas, set to exactly 0 when the absolute value of the sum is
\* below 0.05 and otherwise clipped to [-1, 1]; every published Signal has
\* direction TARGET and a score in [-1, 1] that is 0 or of magnitude at
\* least 0.05.
C18_BlendedScore ==
    /\ \A i \in 1..Len(alpha_scores) :
           alpha_scores[i].combined_after_threshold =
               Blended(WeightedSum(alpha_scores[i].scores))
    /\ \A i \in 1..Len(signals) :
           /\ signals[i].direction = "TARGET"
           /\ signals[i].score = Blended(WeightedSum(signals[i].meta.scores))
           /\ signals[i].score >= 0 - 500 /\ signals[i].score <= 500
           /\ signals[i].score = 0 \/ signals[i].score >= 25 \/ signals[i].score <= 0 - 25

\* A weighted sum of 0.03 was set to 0, a weighted sum of 1.2 was published
\* as 1, and a score of 0 was published.
C18_Witness ==
    /\ \E i \in 1..Len(alpha_scores) :
           /\ WeightedSum(alpha_scores[i].scores) = 15
           /\ alpha_scores[i].combined_after_threshold = 0
    /\ \E i \in 1..Len(signals) :
           WeightedSum(signals[i].meta.scores) = 600 /\ signals[i].score = 500
    /\ \E i \in 1..Len(signals) : signals[i].score = 0

\* The score of the last Signal of the symbol among the first n published,
\* 0 when there is none.
LastPublished(symbol, n) ==
    LET earlier == {j \in 1..n : signals[j].symbol = symbol}
    IN  IF earlier = {} THEN 0
        ELSE signals[CHOOSE j \in earlier : \A k \in earlier : k <= j].score

\* Two scores in five-hundredths differ by at least 0.05.
FarApart(a, b) == a - b >= 25 \/ b - a >= 25

\* C19: a Signal for a symbol is published if and only if the blended score
\* differs from the last published score of that symbol (initially 0) by at
\* least 0.05; hence consecutive published Signals of one symbol differ by
\* at least 0.05, and a blended score of 0.03 after a last published score
\* of 0 publishes nothing.
C19_PublishedIffFarApart ==
    /\ [](\A i \in 1..Len(signals) :
              FarApart(signals[i].score, LastPublished(signals[i].symbol, i - 1)))
    /\ [][Len(alpha_scores') = Len(alpha_scores) + 1 =>
              LET row == alpha_scores'[Len(alpha_scores')]
                  last == LastPublished(row.symbol, Len(signals))
                  far == FarApart(row.combined_after_threshold, last)
              IN  /\ far => /\ Len(signals') = Len(signals) + 1
                            /\ SubSeq(signals', 1, Len(signals)) = signals
                            /\ signals'[Len(signals')].symbol = row.symbol
                            /\ signals'[Len(signals')].score = row.combined_after_threshold
                  /\ ~far => signals' = signals
                  /\ WeightedSum(row.scores) = 15 /\ last = 0 => signals' = signals]_vars

\* Two Signals of one symbol were published, a blended score of 0.03 came
\* while nothing was published, and a blended score of 0.07 came after a
\* published 0.05.
C19_Witness ==
    /\ \E i, j \in 1..Len(signals) : i < j /\ signals[i].symbol = signals[j].symbol
    /\ Len(alpha_scores) >= 1 /\ WeightedSum(alpha_scores[1].scores) = 15
    /\ \E i \in 2..Len(alpha_scores) :
           /\ alpha_scores[i].combined_after_threshold = 35
           /\ alpha_scores[i - 1].combined_after_threshold = 25
           /\ alpha_scores[i].symbol = alpha_scores[i - 1].symbol
           /\ \A k \in 1..Len(signals) : signals[k].score # 35

\* C22: an exception raised while an alpha computes its score for a candle
\* propagates out of on_market_snapshot, and the call publishes no Signal.
C22_AlphaExceptionPropagates ==
    \A i \in 1..Len(on_snapshot_calls) :
        on_snapshot_calls[i].alpha_raised # {} =>
            on_snapshot_calls[i].pc = "raised" /\ ~on_snapshot_calls[i].published

\* The weighted sum, in five-hundredths, of the candle a chain's Signal was
\* blended from.
SumBehind(c) ==
    LET scores == chains[c].signal.meta.scores
    IN  SumOver(DOMAIN scores, scores)

\* C27: when the absolute value of the weighted sum is below the threshold
\* the manager holds: the candle leads to no Order and leaves the ledger's
\* position unchanged, whatever score was last published for the symbol.
C27_HoldCausesNoOrder ==
    \A c \in 1..Len(chains) :
        (SumBehind(c) > 0 - 25 /\ SumBehind(c) < 25) =>
            chains[c].order = NoOrder /\ chains[c].fill = NoFill

Init == BusInit /\ RouterInit /\ TradingInit /\ AggInit /\ ManagerInit /\ TwinInit
        /\ LoopInit /\ NestInit

\* The defaults of the constructors (order_execution_handler.py:21,
\* candlestick_aggregator.py:23), for the components a specification leaves alone.
DefaultMode == mode = "paper"
DefaultTimeframes ==
    timeframes = _parse_timeframes(<< <<"1", "m">>, <<"5", "m">>, <<"1", "h">> >>).mapping

InitDefault == Init /\ DefaultMode /\ DefaultTimeframes
InitTrading == Init /\ DefaultTimeframes
InitAgg == Init /\ DefaultMode

SpecBus == InitDefault /\ [][BusNext]_vars
SpecLoop == InitDefault /\ [][LoopNext]_vars
FairSpecNest == InitDefault /\ [][NestNext]_vars /\ WF_vars(NestRun)

SpecRouter == InitDefault /\ [][RouterNext]_vars
SpecBurst == InitDefault /\ [][BurstNext]_vars
SpecCancel == InitDefault /\ [][CancelNext]_vars

SpecLedger == InitTrading /\ [][LedgerNext]_vars

SpecSequential == InitTrading /\ [][SequentialNext]_vars

SpecPipeline == InitDefault /\ [][PipelineNext]_vars

SpecExec == InitTrading /\ [][ExecNext]_vars

SpecAgg == InitAgg /\ [][AggNext]_vars
SpecEntry == InitAgg /\ [][EntryNext]_vars

SpecManager == InitDefault /\ [][ManagerNext]_vars
SpecTwin == InitDefault /\ [][TwinNext]_vars

\* The event loop runs every task that is ready, and a sleep ends.
FairSpecExec ==
    /\ SpecExec
    /\ \A c \in 1..MaxOrders : WF_vars(on_order(c)) /\ WF_vars(_simulate_fill(c))

====
